---- MODULE Spec2Model ----
(***************************************************************************)
(* Progression engine of the productivity web app: the secure RPCs         *)
(* select_quest, complete_quest, log_workout, get_leaderboard,             *)
(* create_guild and join_guild_by_code over the tables                     *)
(* user_active_quests, quest_completions, xp_events, workout_logs,         *)
(* profiles, groups and group_members, and the pages of the React client   *)
(* that write to the tables themselves.                                    *)
(*                                                                         *)
(* Every RPC runs as one PostgreSQL transaction at the default isolation   *)
(* level READ COMMITTED.  A transaction is a session's position (pc) plus  *)
(* its uncommitted row versions (the w_ sets) and locks; one action is a  *)
(* SQL statement of the function body.  A statement reads committed rows   *)
(* overlaid with the session's own writes, a write or FOR UPDATE waits     *)
(* (the action is disabled) while another session holds the row, and a     *)
(* unique-index check waits for an uncommitted conflicting row.            *)
(***************************************************************************)
EXTENDS Integers, FiniteSets, Sequences, TLC

\* ---------------------------------------------------------------------
\* Bounds and fixtures
\* ---------------------------------------------------------------------
MaxRows == 4             \* rows user_active_quests may hold
MaxDate == 1             \* dates the ledger specifications log: 1..MaxDate
MaxClock == 3            \* values now() takes, in days: 0..MaxClock
Sessions == {1, 2}       \* concurrent database sessions
Users == {1, 2, 3}       \* auth.users (each has a profiles row, lines 43-55)
NULL == 0                \* SQL NULL for ids, users and dates

Quests == 1 .. 5         \* rows of public.quests
QuestIds == 1 .. 6       \* uuids a client may send; 6 names no quest
NoSuchId == 999          \* a uuid no user_active_quests row has
Dates == 1 .. MaxDate
\* fault variant: the date taken in a time zone one day behind
current_date_behind(now) == now
\* current_date: the date of the transaction's start time (day 0 of the
\* clock is date 1)
current_date(now) == now + 1

\* quests.xp_reward / quests.path_key / quests.is_active of the seeded rows
xp_reward(q) == CASE q = 1 -> 20 [] q = 2 -> 30 [] q = 3 -> 35 [] q = 4 -> 50 [] OTHER -> 20
quest_path_key(q) == IF q = 5 THEN "HEAVENLY_DEMON" ELSE "HUNTER"
quest_is_active(q) == TRUE
\* profiles.path_key: user 1 chose a path, user 2 has not chosen yet
profile_path_key(u) == IF u = 1 THEN "HUNTER" ELSE ""

VARIABLES
    rev,                \* schema revision deployed: "core", "fix", "patched"
                        \* (core with select_quest of 20260301) or "kept"
                        \* (part_003 before the later patches)
    uaq,               \* public.user_active_quests, committed rows
    quest_completions,  \* public.quest_completions, committed rows
    xp_events,          \* public.xp_events, committed rows
    workout_logs,       \* public.workout_logs, committed rows
    profiles,           \* public.profiles, committed rows
    clock,              \* now(), in days since 1970-01-01
    tx,                 \* per session: the running RPC, its locals and writes
    group_members,      \* public.group_members, committed rows
    groups,             \* public.groups, committed rows
    names,              \* profiles.username and profiles.display_name
    board,              \* what the last get_leaderboard call returned
    dailyClaimed,       \* browsers whose localStorage holds today's daily
                        \* claim key of the signed-in user
    page                \* per browser: the profile the app last loaded and
                        \* where its submitWorkoutLog stands

vars == <<rev, uaq, quest_completions, xp_events, workout_logs, profiles, clock, tx,
          group_members, groups, names, board,
                   dailyClaimed, page>>

\* ---------------------------------------------------------------------
\* Helpers
\* ---------------------------------------------------------------------
Ids(rows) == {r.id : r \in rows}

\* rows a statement of a session sees: committed rows overlaid with its
\* own uncommitted versions
View(tbl, w) == {r \in tbl : r.id \notin Ids(w)} \cup w

NoRet == [awarded |-> FALSE, awarded_xp |-> 0, total_xp |-> 0, id |-> NULL,
          status |-> "", current_streak |-> 0, longest_streak |-> 0,
          bonus_xp |-> 0]

Idle == [op |-> "idle", pc |-> "idle", user |-> NULL, arg |-> NULL,
         completed |-> FALSE, payload |-> <<FALSE, FALSE>>, now |-> 0,
         err |-> "",
         v_status |-> "", v_completion_id |-> NULL, v_xp |-> 0,
         v_log |-> NULL, v_award |-> 0, v_total |-> 0, v_bonus |-> 0,
         v_group_id |-> NULL, v_code |-> <<>>,
         w_uaq |-> {}, w_qc |-> {}, w_xp |-> {}, w_wl |-> {}, w_prof |-> {},
         w_groups |-> {}, w_gm |-> {},
         locks |-> {}, ret |-> NoRet]

Others(s) == Sessions \ {s}

VisUaq(s) == View(uaq, tx[s].w_uaq)
VisQc(s) == View(quest_completions, tx[s].w_qc)
VisXp(s) == xp_events \cup tx[s].w_xp
VisWl(s) == View(workout_logs, tx[s].w_wl)
VisProf(s) == View(profiles, tx[s].w_prof)

\* a row version of user_active_quests another session has not committed
UaqPendingByOther(s, id) == \E t \in Others(s) : id \in Ids(tx[t].w_uaq)
\* ... or holds under SELECT ... FOR UPDATE
UaqLockedByOther(s, id) ==
    \E t \in Others(s) : id \in Ids(tx[t].w_uaq) \cup tx[t].locks
ProfLockedByOther(s, u) == \E t \in Others(s) : u \in Ids(tx[t].w_prof)
WlLockedByOther(s, id) == \E t \in Others(s) : id \in Ids(tx[t].w_wl)

AllUaq == uaq \cup UNION {tx[t].w_uaq : t \in Sessions}

\* gen_random_uuid() picks an id no row has.  Ids are opaque, so the model
\* takes a canonical fresh one: the k-th row of (u, q) in user_active_quests,
\* the completion row of an assignment, the log row of (u, date).
NewUaqId(u, q) ==
    u * 100 + q * 10 + 1
      + Cardinality({r \in AllUaq : r.user_id = u /\ r.quest_id = q})
AllQc == quest_completions \cup UNION {tx[t].w_qc : t \in Sessions}
AllXp == xp_events \cup UNION {tx[t].w_xp : t \in Sessions}
AllWl == workout_logs \cup UNION {tx[t].w_wl : t \in Sessions}
NewCompletionId(a) ==
    1000 * (1 + Cardinality({c \in AllQc : c.active_quest_id = a})) + a
NewLogId(u, d) ==
    2000 + 100 * Cardinality({l \in AllWl : l.user_id = u /\ l.log_date = d})
      + u * 10 + d
XpKey(e) == <<e.user_id, e.source_type, e.source_id>>
NewXpId(key) == 1 + Cardinality({e \in AllXp : XpKey(e) = key})

Raise(s, kind) == tx' = [tx EXCEPT ![s].pc = "raised", ![s].err = kind]

\* no statement of an RPC touches a committed row, a leaderboard already
\* returned, the browser's claim key or its page
DbUnchanged ==
    UNCHANGED <<rev, uaq, quest_completions, xp_events, workout_logs, profiles,
                group_members, groups, names, board, dailyClaimed, page>>

RECURSIVE SumAmount(_)
\* sum(amount) over a set of xp_events rows
SumAmount(rows) ==
    IF rows = {} THEN 0
    ELSE LET e == CHOOSE x \in rows : TRUE
         IN e.amount + SumAmount(rows \ {e})

\* no leaderboard requested yet
NoBoard ==
    [caller |-> NULL, group |-> NULL, timeframe |-> "", err |-> "",
     rows |-> <<>>]
\* the text that is null (the invite_code of a row create_guild did not
\* insert, a p_name left out)
NullText == <<"null">>
\* a profile whose name columns were never filled
NoName == [username |-> NULL, display_name |-> NULL]

\* the app of a browser that has loaded a new profile and waits for no
\* request
NoPage ==
    [profile |-> 0, pc |-> "idle", completed |-> FALSE,
     payload |-> <<FALSE, FALSE>>, sessionXp |-> 0, beforeXp |-> 0,
     awardedXp |-> 0, delta |-> 0, next |-> 0]
\* supabase.rpc resolves with data: a page waiting for log_workout reads
\* awarded_xp from the row returned
rpc_data(pg, ret) ==
    IF pg.pc = "rpc"
      THEN [pg EXCEPT !.pc = "result", !.awardedXp = ret.awarded_xp]
      ELSE pg
\* supabase.rpc resolves with rpcError: setError and return
rpc_error(pg) ==
    IF pg.pc = "rpc" THEN [NoPage EXCEPT !.profile = pg.profile] ELSE pg

\* the RPC arrives on a free session: auth.uid() and the arguments
Call(s, op, u, arg) ==
    [Idle EXCEPT !.op = op, !.user = u, !.arg = arg, !.now = clock]

\* ---------------------------------------------------------------------
\* Initial state: the migration has run, the tables are empty, every
\* auth user has its profiles row (trigger on_auth_user_created_profile)
\* ---------------------------------------------------------------------
Init ==
    /\ rev \in {"core", "fix"}
    /\ uaq = {}
    /\ quest_completions = {}
    /\ xp_events = {}
    /\ workout_logs = {}
    /\ profiles = {[id |-> u, total_xp |-> 0, current_streak |-> 0,
                    longest_streak |-> 0] : u \in Users}
    /\ clock = 0
    /\ tx = [s \in Sessions |-> Idle]
    /\ group_members = {}
    /\ groups = {}
    /\ names = [u \in Users |-> NoName]
    /\ board = NoBoard
    /\ dailyClaimed = {}
    /\ page = [b \in Sessions |-> NoPage]

InitCore == Init /\ rev = "core"

\* time passes between calls
Tick ==
    /\ clock < MaxClock
    /\ clock' = clock + 1
    /\ dailyClaimed' = {}
    /\ UNCHANGED <<rev, uaq, quest_completions, xp_events, workout_logs,
                   profiles, tx, group_members, groups, names, board, page>>

\* 20260301_guild_open_join_and_select_quest_fix.sql is applied to the
\* database of the core migration: create or replace function
\* select_quest, the tables and the other functions staying as they are
apply_select_quest_fix ==
    /\ rev = "core"
    /\ \A s \in Sessions : tx[s].pc = "idle"
    /\ rev' = "patched"
    /\ UNCHANGED <<uaq, quest_completions, xp_events, workout_logs, profiles,
                   clock, tx, group_members, groups, names, board,
                   dailyClaimed, page>>

\* ---------------------------------------------------------------------
\* select_quest (core migration, lines 430-489)
\* ---------------------------------------------------------------------
\* lines 464-466: count(*) of the caller's active assignments
v_active_count(s, u) ==
    Cardinality({r \in VisUaq(s) : r.user_id = u /\ r.status = "active"})

\* fault variant: the comparison lets a fourth active quest through
core_limit_off_by_one(n) == n > 3
\* line 468: if v_active_count >= 3
core_limit_reached(n) == n >= 3

\* lines 443-470: authentication, path and quest validation, active count
select_quest_call(s, u, q) ==
    /\ rev = "core"
    /\ tx[s].pc = "idle"
    /\ LET t == Call(s, "select_quest", u, q)
       IN tx' = [tx EXCEPT ![s] =
            IF u = NULL
              THEN [t EXCEPT !.pc = "raised", !.err = "NotAuthenticated"]
            ELSE IF profile_path_key(u) = ""
              THEN [t EXCEPT !.pc = "raised", !.err = "PathRequired"]
            ELSE IF q \notin Quests \/ ~quest_is_active(q)
              THEN [t EXCEPT !.pc = "raised", !.err = "NotFound"]
            ELSE IF quest_path_key(q) # profile_path_key(u)
              THEN [t EXCEPT !.pc = "raised", !.err = "PathMismatch"]
            ELSE IF core_limit_reached(v_active_count(s, u))
              THEN [t EXCEPT !.pc = "raised", !.err = "CapacityExceeded"]
            ELSE [t EXCEPT !.pc = "sq_insert"]]
    /\ UNCHANGED clock /\ DbUnchanged

\* fault variant: the table without its partial unique index
ActiveConflictNone(rows, u, q) == {}
\* idx_user_active_quests_unique_active (lines 96-98): rows that conflict
\* with a new active (u, q) row
ActiveConflict(rows, u, q) ==
    {r \in rows : r.user_id = u /\ r.quest_id = q /\ r.status = "active"}

\* the unique check must wait: an uncommitted active (u, q) row of another
\* session, or a committed one another session is rewriting
ActiveInsertBlocked(s, u, q) ==
    \/ \E t \in Others(s) : ActiveConflict(tx[t].w_uaq, u, q) # {}
    \/ \E r \in ActiveConflict(uaq, u, q) : UaqPendingByOther(s, r.id)

\* lines 472-475: insert ... on conflict do nothing returning *
select_quest_insert(s) ==
    /\ tx[s].op = "select_quest" /\ tx[s].pc = "sq_insert"
    /\ ~ActiveInsertBlocked(s, tx[s].user, tx[s].arg)
    /\ IF ActiveConflict(VisUaq(s), tx[s].user, tx[s].arg) # {}
         THEN tx' = [tx EXCEPT ![s].pc = "sq_reselect"]
         ELSE /\ Cardinality(AllUaq) < MaxRows
              /\ LET row == [id |-> NewUaqId(tx[s].user, tx[s].arg),
                             user_id |-> tx[s].user, quest_id |-> tx[s].arg,
                             status |-> "active", selected_at |-> tx[s].now]
                 IN tx' = [tx EXCEPT ![s].pc = "commit",
                                     ![s].w_uaq = @ \cup {row},
                                     ![s].ret = [NoRet EXCEPT !.id = row.id,
                                                              !.status = "active"]]
    /\ UNCHANGED clock /\ DbUnchanged

\* lines 477-487: v_row.id is null, read the active row back
select_quest_reselect(s) ==
    /\ tx[s].op = "select_quest" /\ tx[s].pc = "sq_reselect"
    /\ LET found == ActiveConflict(VisUaq(s), tx[s].user, tx[s].arg)
       IN tx' = [tx EXCEPT ![s].pc = "commit",
                           ![s].ret = IF found = {} THEN NoRet
                                      ELSE LET r == CHOOSE r \in found : TRUE
                                           IN [NoRet EXCEPT !.id = r.id,
                                                            !.status = r.status]]
    /\ UNCHANGED clock /\ DbUnchanged

\* ---------------------------------------------------------------------
\* complete_quest (core migration, lines 494-565)
\* ---------------------------------------------------------------------
ProfileOf(rows, u) == CHOOSE p \in rows : p.id = u

\* fault variant: the ledger without its unique key
XpConflictNone(rows, key) == {}
\* unique (user_id, source_type, source_id), lines 113-121
XpConflict(rows, key) == {e \in rows : XpKey(e) = key}
XpInsertBlocked(s, key) == \E t \in Others(s) : XpConflict(tx[t].w_xp, key) # {}

\* unique (active_quest_id), lines 100-108
CompletionConflict(rows, a) == {c \in rows : c.active_quest_id = a}
CompletionInsertBlocked(s, a) ==
    \E t \in Others(s) : CompletionConflict(tx[t].w_qc, a) # {}

\* lines 510-512: authentication
complete_quest_call(s, u, a) ==
    /\ rev \in {"core", "patched"}
    /\ tx[s].pc = "idle"
    /\ LET t == Call(s, "complete_quest", u, a)
       IN tx' = [tx EXCEPT ![s] =
            IF u = NULL
              THEN [t EXCEPT !.pc = "raised", !.err = "NotAuthenticated"]
              ELSE [t EXCEPT !.pc = "cq_lock"]]
    /\ UNCHANGED clock /\ DbUnchanged

\* fault variant: the row of the id, whoever owns it
AnyAssignment(rows, a, u) == {r \in rows : r.id = a}
\* where aq.id = p_active_quest_id and aq.user_id = v_user_id
OwnAssignment(rows, a, u) == {r \in rows : r.id = a /\ r.user_id = u}

\* fault variant: the status test inverted for active rows
cq_after_lock_never(status) == "cq_already"
\* line 526: if v_active.status <> 'active'
cq_after_lock(status) == IF status # "active" THEN "cq_already" ELSE "cq_complete"

\* lines 514-530: select ... for update (waits for the row's holder, then
\* reads the committed row), not-found and status check
complete_quest_lock(s) ==
    /\ tx[s].op = "complete_quest" /\ tx[s].pc = "cq_lock"
    /\ LET a == tx[s].arg
           found == OwnAssignment(VisUaq(s), a, tx[s].user)
       IN IF found = {}
            THEN Raise(s, "NotFound")
            ELSE /\ ~UaqLockedByOther(s, a)
                 /\ LET v_active == CHOOSE r \in found : TRUE
                    IN tx' = [tx EXCEPT ![s].locks = {a},
                                        ![s].v_status = v_active.status,
                                        ![s].v_xp = xp_reward(v_active.quest_id),
                                        ![s].pc = cq_after_lock(v_active.status)]
    /\ UNCHANGED clock /\ DbUnchanged

\* fault variant: a completed assignment is awarded again
complete_quest_again(s) ==
    /\ tx[s].op = "complete_quest" /\ tx[s].pc = "cq_already"
    /\ ~ProfLockedByOther(s, tx[s].user)
    /\ LET p == ProfileOf(VisProf(s), tx[s].user)
           v_total == p.total_xp + tx[s].v_xp
       IN tx' = [tx EXCEPT ![s].pc = "commit", ![s].v_total = v_total,
                           ![s].w_prof = {[p EXCEPT !.total_xp = v_total]},
                           ![s].ret = [NoRet EXCEPT !.awarded = TRUE,
                                                    !.awarded_xp = tx[s].v_xp,
                                                    !.total_xp = v_total]]
    /\ UNCHANGED clock /\ DbUnchanged

\* lines 526-530: not active any more, report the current total
complete_quest_already(s) ==
    /\ tx[s].op = "complete_quest" /\ tx[s].pc = "cq_already"
    /\ LET v_total == ProfileOf(VisProf(s), tx[s].user).total_xp
       IN tx' = [tx EXCEPT ![s].pc = "commit", ![s].v_total = v_total,
                           ![s].ret = [NoRet EXCEPT !.total_xp = v_total]]
    /\ UNCHANGED clock /\ DbUnchanged

UaqRow(s, a) == CHOOSE r \in VisUaq(s) : r.id = a

\* lines 532-555: insert the completion, the XP event, flip the assignment
complete_quest_record(s) ==
    /\ tx[s].op = "complete_quest" /\ tx[s].pc = "cq_complete"
    /\ ~CompletionInsertBlocked(s, tx[s].arg)
    /\ LET a == tx[s].arg
           u == tx[s].user
           row == UaqRow(s, a)
           done == [row EXCEPT !.status = "completed"]
       IN IF CompletionConflict(VisQc(s), a) # {}
            THEN \* lines 537-545: v_completion_id is null
                 LET v_total == ProfileOf(VisProf(s), u).total_xp
                 IN tx' = [tx EXCEPT ![s].pc = "commit",
                                     ![s].v_total = v_total,
                                     ![s].w_uaq = {done},
                                     ![s].ret = [NoRet EXCEPT !.total_xp = v_total]]
            ELSE LET cid == NewCompletionId(a)
                     key == <<u, "quest_completion", cid>>
                     ev == [id |-> NewXpId(key), user_id |-> u,
                            source_type |-> "quest_completion",
                            source_id |-> cid, amount |-> tx[s].v_xp]
                 IN /\ ~XpInsertBlocked(s, key)
                    /\ tx' = [tx EXCEPT
                         ![s].pc = "cq_profile",
                         ![s].v_completion_id = cid,
                         ![s].w_qc = {[id |-> cid, user_id |-> u,
                                       active_quest_id |-> a,
                                       quest_id |-> row.quest_id]},
                         ![s].w_xp = IF XpConflict(VisXp(s), key) # {}
                                       THEN {} ELSE {ev},
                         ![s].w_uaq = {done}]
    /\ UNCHANGED clock /\ DbUnchanged

\* fault variant: the reward is added but the total read before it is returned
complete_quest_profile_stale(s) ==
    /\ tx[s].op = "complete_quest" /\ tx[s].pc = "cq_profile"
    /\ ~ProfLockedByOther(s, tx[s].user)
    /\ LET p == ProfileOf(VisProf(s), tx[s].user)
           v_total == p.total_xp + tx[s].v_xp
       IN tx' = [tx EXCEPT ![s].pc = "commit", ![s].v_total = p.total_xp,
                           ![s].w_prof = {[p EXCEPT !.total_xp = v_total]},
                           ![s].ret = [NoRet EXCEPT !.awarded = TRUE,
                                                    !.awarded_xp = tx[s].v_xp,
                                                    !.total_xp = p.total_xp]]
    /\ UNCHANGED clock /\ DbUnchanged

\* lines 557-563: add the reward to the cached total, return
complete_quest_profile(s) ==
    /\ tx[s].op = "complete_quest" /\ tx[s].pc = "cq_profile"
    /\ ~ProfLockedByOther(s, tx[s].user)
    /\ LET p == ProfileOf(VisProf(s), tx[s].user)
           v_total == p.total_xp + tx[s].v_xp
       IN tx' = [tx EXCEPT ![s].pc = "commit", ![s].v_total = v_total,
                           ![s].w_prof = {[p EXCEPT !.total_xp = v_total]},
                           ![s].ret = [NoRet EXCEPT !.awarded = TRUE,
                                                    !.awarded_xp = tx[s].v_xp,
                                                    !.total_xp = v_total]]
    /\ UNCHANGED clock /\ DbUnchanged

\* ---------------------------------------------------------------------
\* recalculate_streaks (core migration, lines 378-425)
\* ---------------------------------------------------------------------
CompletedDates(rows, u) ==
    {l.log_date : l \in {x \in rows : x.user_id = u /\ x.completed}}

RECURSIVE v_current(_, _)
\* lines 389-398: walk back from current_date while a completed log exists
v_current(days, d) == IF d \in days THEN 1 + v_current(days, d - 1) ELSE 0

SetMax(S) == IF S = {} THEN 0 ELSE CHOOSE x \in S : \A y \in S : y <= x

\* lines 400-414: log_date - row_number() groups the consecutive runs
v_longest(days) ==
    LET grp(d) == d - Cardinality({e \in days : e <= d})
    IN SetMax({Cardinality({e \in days : grp(e) = grp(d)}) : d \in days})

\* fault variant: the new value stored without the comparison
greatest_last(a, b) == b
\* SQL greatest(a, b)
greatest(a, b) == IF a >= b THEN a ELSE b

\* fault variant: the update sets current_streak alone
recalculate_streaks_current_only(p, days, today) ==
    [p EXCEPT !.current_streak = v_current(days, today)]
\* lines 416-420
recalculate_streaks(p, days, today) ==
    [p EXCEPT !.current_streak = v_current(days, today),
              !.longest_streak = greatest(p.longest_streak, v_longest(days))]

\* ---------------------------------------------------------------------
\* calcStreaks of the client (GymPage): the streaks shown from the loaded
\* workout_logs rows
\* ---------------------------------------------------------------------
RECURSIVE SortedDates(_)
\* logs.filter(completed).map(log_date).sort(): ascending dates
SortedDates(days) ==
    IF days = {} THEN <<>>
    ELSE LET d == CHOOSE x \in days : \A y \in days : x <= y
         IN <<d>> \o SortedDates(days \ {d})

RECURSIVE calcLongest_no_reset(_, _, _, _)
\* fault variant: every later date extends the run, a gap does not
\* restart it
calcLongest_no_reset(completed, i, run, longest) ==
    IF i > Len(completed) THEN longest
    ELSE calcLongest_no_reset(completed, i + 1, run + 1,
                              greatest(longest, run + 1))
RECURSIVE calcLongest(_, _, _, _)
\* the for loop: run grows while the next date is one day later, else
\* restarts at 1; longest is the greatest run seen
calcLongest(completed, i, run, longest) ==
    IF i > Len(completed) THEN longest
    ELSE IF completed[i] - completed[i - 1] = 1
      THEN calcLongest(completed, i + 1, run + 1, greatest(longest, run + 1))
      ELSE calcLongest(completed, i + 1, 1, longest)

\* calcStreaks(logs), today being new Date() of the browser
calcStreaks(rows, u, today) ==
    LET days == CompletedDates(rows, u)
    IN IF days = {}
         THEN [current |-> 0, longest |-> 0]
         ELSE [current |-> v_current(days, today),
               longest |-> calcLongest(SortedDates(days), 2, 1, 1)]

\* ---------------------------------------------------------------------
\* log_workout (core migration, lines 614-688)
\* ---------------------------------------------------------------------
\* fault variant: workout_logs without its unique (user_id, log_date)
LogConflictNone(rows, u, d) == {}
\* unique (user_id, log_date), lines 151-161
LogConflict(rows, u, d) == {l \in rows : l.user_id = u /\ l.log_date = d}
LogUpsertBlocked(s, u, d) ==
    \/ \E t \in Others(s) : LogConflict(tx[t].w_wl, u, d) # {}

\* lines 640-660: authentication, date check, upsert of the day's row
log_workout_call(s, u, d, c) ==
    /\ rev = "core"
    /\ tx[s].pc = "idle"
    /\ LET t == [Call(s, "log_workout", u, d) EXCEPT !.completed = c]
           old == LogConflict(VisWl(s), u, d)
       IN IF u = NULL
            THEN tx' = [tx EXCEPT ![s] = [t EXCEPT !.pc = "raised",
                                                   !.err = "NotAuthenticated"]]
          ELSE IF d = NULL
            THEN tx' = [tx EXCEPT ![s] = [t EXCEPT !.pc = "raised",
                                                   !.err = "ValidationFailed"]]
          ELSE /\ ~LogUpsertBlocked(s, u, d)
               /\ LET v_log == IF old = {}
                                 THEN [id |-> NewLogId(u, d), user_id |-> u,
                                       log_date |-> d, completed |-> c]
                                 ELSE [(CHOOSE l \in old : TRUE)
                                          EXCEPT !.completed = c]
                  IN tx' = [tx EXCEPT ![s] = [t EXCEPT !.pc = "lw_award",
                                                       !.v_log = v_log.id,
                                                       !.w_wl = {v_log}]]
    /\ UNCHANGED clock /\ DbUnchanged

\* line 669: v_award := 20
workout_award == 20
\* fault variant: the ledger row written with another amount than the award
workout_amount_half == workout_award \div 2
\* line 664: values (v_user_id, 'workout_log', v_log.id, 20)
workout_amount == 20

\* fault variant: the award not guarded by p_completed
p_completed_ignored(s) == TRUE
\* line 662: if p_completed then
p_completed(s) == tx[s].completed

\* lines 662-679: award once per log row, or just read the total
log_workout_award(s) ==
    /\ tx[s].op = "log_workout" /\ tx[s].pc = "lw_award"
    /\ LET u == tx[s].user
           key == <<u, "workout_log", tx[s].v_log>>
           ev == [id |-> NewXpId(key), user_id |-> u,
                  source_type |-> "workout_log", source_id |-> tx[s].v_log,
                  amount |-> workout_amount]
       IN IF p_completed(s)
            THEN /\ ~XpInsertBlocked(s, key)
                 /\ IF XpConflict(VisXp(s), key) = {}
                      THEN /\ ~ProfLockedByOther(s, u)
                           /\ LET p == ProfileOf(VisProf(s), u)
                                  v_total == p.total_xp + workout_award
                              IN tx' = [tx EXCEPT
                                   ![s].pc = "lw_streaks",
                                   ![s].w_xp = {ev},
                                   ![s].v_award = workout_award,
                                   ![s].v_total = v_total,
                                   ![s].w_prof = {[p EXCEPT !.total_xp = v_total]}]
                      ELSE tx' = [tx EXCEPT
                                   ![s].pc = "lw_streaks",
                                   ![s].v_total = ProfileOf(VisProf(s), u).total_xp]
            ELSE tx' = [tx EXCEPT
                         ![s].pc = "lw_streaks",
                         ![s].v_total = ProfileOf(VisProf(s), u).total_xp]
    /\ UNCHANGED clock /\ DbUnchanged

\* lines 681-686: recalculate_streaks(v_user_id), return
log_workout_streaks(s) ==
    /\ tx[s].op = "log_workout" /\ tx[s].pc = "lw_streaks"
    /\ ~ProfLockedByOther(s, tx[s].user)
    /\ LET u == tx[s].user
           days == CompletedDates(VisWl(s), u)
           today == current_date(tx[s].now)
           p == recalculate_streaks(ProfileOf(VisProf(s), u), days, today)
       IN tx' = [tx EXCEPT ![s].pc = "commit",
                           ![s].w_prof = {p},
                           ![s].ret = [NoRet EXCEPT
                                !.id = tx[s].v_log,
                                !.awarded_xp = tx[s].v_award,
                                !.current_streak = v_current(days, today),
                                !.longest_streak = v_longest(days),
                                !.total_xp = tx[s].v_total]]
    /\ UNCHANGED clock /\ DbUnchanged

\* =====================================================================
\* Revision "fix": 20260222_core_gameplay.sql as kept with the later
\* patches (unique (user_id, quest_id), status and selected_at added by
\* 20260227), select_quest of 20260301, log_workout of 20260228
\* =====================================================================

\* v_limit integer := 10
v_limit == 10

\* unique (user_id, quest_id): rows of the pair, whatever their status
PairRows(rows, u, q) == {r \in rows : r.user_id = u /\ r.quest_id = q}

\* select_quest (20260301): authentication, "already selected" test,
\* active count against v_limit
select_quest_fix_call(s, u, q) ==
    /\ rev \in {"fix", "patched"}
    /\ tx[s].pc = "idle"
    /\ LET t == Call(s, "select_quest", u, q)
       IN tx' = [tx EXCEPT ![s] =
            IF u = NULL
              THEN [t EXCEPT !.pc = "raised", !.err = "NotAuthenticated"]
            ELSE IF PairRows(VisUaq(s), u, q) # {}
              THEN [t EXCEPT !.pc = "sqf_refresh"]
            ELSE IF v_active_count(s, u) >= v_limit
              THEN [t EXCEPT !.pc = "raised", !.err = "CapacityExceeded"]
            ELSE [t EXCEPT !.pc = "sqf_insert"]]
    /\ UNCHANGED clock /\ DbUnchanged

\* the row of the pair with status active and selected_at = now()
Reactivated(r, now) == [r EXCEPT !.status = "active", !.selected_at = now]

\* update ... set status = 'active', selected_at = now() where (u, q);
\* on the core table, which keeps one row per selection, two rows of the
\* pair made active collide in idx_user_active_quests_unique_active
select_quest_fix_refresh(s) ==
    /\ tx[s].op = "select_quest" /\ tx[s].pc = "sqf_refresh"
    /\ LET rows == PairRows(VisUaq(s), tx[s].user, tx[s].arg)
       IN /\ \A r \in rows : ~UaqLockedByOther(s, r.id)
          /\ IF Cardinality(rows) > 1
               THEN Raise(s, "UniqueViolation")
               ELSE tx' = [tx EXCEPT ![s].pc = "commit",
                              ![s].w_uaq = {Reactivated(r, tx[s].now) : r \in rows}]
    /\ UNCHANGED clock /\ DbUnchanged

\* the unique check must wait for an uncommitted row of the pair
PairInsertBlocked(s, u, q) ==
    \/ \E t \in Others(s) : PairRows(tx[t].w_uaq, u, q) # {}
    \/ \E r \in PairRows(uaq, u, q) : UaqLockedByOther(s, r.id)

\* insert ... on conflict (user_id, quest_id) do update set status =
\* 'active', selected_at = excluded.selected_at; quest_id references quests
select_quest_fix_insert(s) ==
    /\ tx[s].op = "select_quest" /\ tx[s].pc = "sqf_insert"
    /\ LET u == tx[s].user
           q == tx[s].arg
           old == PairRows(VisUaq(s), u, q)
       IN IF rev = "patched"
            \* the core table has no unique (user_id, quest_id) for the
            \* conflict target to name, only the partial index
            THEN Raise(s, "InvalidConflictTarget")
          ELSE IF q \notin Quests
            THEN Raise(s, "ForeignKeyViolation")
          ELSE /\ ~PairInsertBlocked(s, u, q)
               /\ IF old # {}
                    THEN tx' = [tx EXCEPT ![s].pc = "commit",
                                  ![s].w_uaq = {Reactivated(r, tx[s].now) : r \in old}]
                    ELSE /\ Cardinality(AllUaq) < MaxRows
                         /\ tx' = [tx EXCEPT ![s].pc = "commit",
                                     ![s].w_uaq = {[id |-> NewUaqId(u, q),
                                                    user_id |-> u, quest_id |-> q,
                                                    status |-> "active",
                                                    selected_at |-> tx[s].now]}]
    /\ UNCHANGED clock /\ DbUnchanged

\* complete_quest (part of the kept 20260222 file): authentication
complete_quest_fix_call(s, u, a) ==
    /\ rev = "fix"
    /\ tx[s].pc = "idle"
    /\ LET t == Call(s, "complete_quest", u, a)
       IN tx' = [tx EXCEPT ![s] =
            IF u = NULL
              THEN [t EXCEPT !.pc = "raised", !.err = "NotAuthenticated"]
              ELSE [t EXCEPT !.pc = "cqf_record"]]
    /\ UNCHANGED clock /\ DbUnchanged

\* ownership test, insert into quest_completions ... on conflict
\* (active_quest_id) do nothing
complete_quest_fix_record(s) ==
    /\ tx[s].op = "complete_quest" /\ tx[s].pc = "cqf_record"
    /\ LET a == tx[s].arg
           u == tx[s].user
           found == OwnAssignment(VisUaq(s), a, u)
       IN IF found = {}
            THEN Raise(s, "NotFound")
            ELSE /\ ~CompletionInsertBlocked(s, a)
                 /\ tx' = [tx EXCEPT
                      ![s].pc = "cqf_award",
                      ![s].v_xp = xp_reward((CHOOSE r \in found : TRUE).quest_id),
                      ![s].w_qc = IF CompletionConflict(VisQc(s), a) # {} THEN {}
                                  ELSE {[id |-> NewCompletionId(a), user_id |-> u,
                                         active_quest_id |-> a, quest_id |-> NULL]}]
    /\ UNCHANGED clock /\ DbUnchanged

\* insert into xp_events (.., 'quest', p_active_quest_id, xp) on conflict do
\* nothing; if v_rows > 0 and xp > 0 then xp_total := xp_total + xp
complete_quest_fix_award(s) ==
    /\ tx[s].op = "complete_quest" /\ tx[s].pc = "cqf_award"
    /\ LET u == tx[s].user
           key == <<u, "quest", tx[s].arg>>
           ev == [id |-> NewXpId(key), user_id |-> u, source_type |-> "quest",
                  source_id |-> tx[s].arg, amount |-> tx[s].v_xp]
       IN /\ ~XpInsertBlocked(s, key)
          /\ IF XpConflict(VisXp(s), key) = {}
               THEN IF tx[s].v_xp > 0
                      THEN /\ ~ProfLockedByOther(s, u)
                           /\ LET p == ProfileOf(VisProf(s), u)
                              IN tx' = [tx EXCEPT
                                   ![s].pc = "commit", ![s].w_xp = {ev},
                                   ![s].w_prof = {[p EXCEPT !.total_xp = @ + tx[s].v_xp]}]
                      ELSE tx' = [tx EXCEPT ![s].pc = "commit", ![s].w_xp = {ev}]
               ELSE tx' = [tx EXCEPT ![s].pc = "commit"]
    /\ UNCHANGED clock /\ DbUnchanged

\* recalculate_streaks of the kept file: longest := greatest(longest, streak)
recalculate_streaks_fix(p, days, today) ==
    LET streak == v_current(days, today)
    IN [p EXCEPT !.current_streak = streak,
                 !.longest_streak = greatest(p.longest_streak, streak)]

\* fault variant: the flags of the payload are not read
v_bonus_xp_none(payload) == 0
\* v_bonus_xp: +10 for bonus_walk_45, +15 for bonus_run_45
v_bonus_xp(payload) ==
    (IF payload[1] THEN 10 ELSE 0) + (IF payload[2] THEN 15 ELSE 0)
\* v_base_xp := 40, +10 for bonus_walk_45, +15 for bonus_run_45
v_total_xp(payload) ==
    40 + (IF payload[1] THEN 10 ELSE 0) + (IF payload[2] THEN 15 ELSE 0)

\* log_workout (20260228): authentication, upsert of the day's row
log_workout_fix_call(s, u, d, c, payload) ==
    /\ rev = "fix"
    /\ tx[s].pc = "idle"
    /\ LET t == [Call(s, "log_workout", u, d) EXCEPT !.completed = c,
                                                      !.payload = payload]
           old == LogConflict(VisWl(s), u, d)
       IN IF u = NULL
            THEN tx' = [tx EXCEPT ![s] = [t EXCEPT !.pc = "raised",
                                                   !.err = "NotAuthenticated"]]
          ELSE IF d = NULL
            THEN tx' = [tx EXCEPT ![s] = [t EXCEPT !.pc = "raised",
                                                   !.err = "NotNullViolation"]]
          ELSE /\ ~LogUpsertBlocked(s, u, d)
               /\ LET v_log == IF old = {}
                                 THEN [id |-> NewLogId(u, d), user_id |-> u,
                                       log_date |-> d, completed |-> c]
                                 ELSE [(CHOOSE l \in old : TRUE)
                                          EXCEPT !.completed = c]
                  IN tx' = [tx EXCEPT ![s] = [t EXCEPT !.pc = "lwf_award",
                                                       !.v_log = v_log.id,
                                                       !.w_wl = {v_log}]]
    /\ UNCHANGED clock /\ DbUnchanged

\* award 40 + bonus once per log row
log_workout_fix_award(s) ==
    /\ tx[s].op = "log_workout" /\ tx[s].pc = "lwf_award"
    /\ LET u == tx[s].user
           key == <<u, "workout", tx[s].v_log>>
           amount == v_total_xp(tx[s].payload)
           ev == [id |-> NewXpId(key), user_id |-> u, source_type |-> "workout",
                  source_id |-> tx[s].v_log, amount |-> amount]
       IN IF tx[s].completed
            THEN /\ ~XpInsertBlocked(s, key)
                 /\ IF XpConflict(VisXp(s), key) = {}
                      THEN /\ ~ProfLockedByOther(s, u)
                           /\ LET p == ProfileOf(VisProf(s), u)
                              IN tx' = [tx EXCEPT
                                   ![s].pc = "lwf_streaks", ![s].w_xp = {ev},
                                   ![s].v_award = amount,
                                   ![s].v_bonus = v_bonus_xp(tx[s].payload),
                                   ![s].w_prof = {[p EXCEPT !.total_xp = @ + amount]}]
                      ELSE tx' = [tx EXCEPT ![s].pc = "lwf_streaks"]
            ELSE tx' = [tx EXCEPT ![s].pc = "lwf_streaks"]
    /\ UNCHANGED clock /\ DbUnchanged

\* perform recalculate_streaks(auth.uid()); return awarded_xp, bonus_xp
log_workout_fix_streaks(s) ==
    /\ tx[s].op = "log_workout" /\ tx[s].pc = "lwf_streaks"
    /\ ~ProfLockedByOther(s, tx[s].user)
    /\ LET u == tx[s].user
           days == CompletedDates(VisWl(s), u)
           p == recalculate_streaks_fix(ProfileOf(VisProf(s), u), days,
                                        current_date(tx[s].now))
       IN tx' = [tx EXCEPT ![s].pc = "commit",
                           ![s].w_prof = {p},
                           ![s].ret = [NoRet EXCEPT !.id = tx[s].v_log,
                                                    !.awarded_xp = tx[s].v_award,
                                                    !.bonus_xp = tx[s].v_bonus]]
    /\ UNCHANGED clock /\ DbUnchanged

\* ---------------------------------------------------------------------
\* Transaction end
\* ---------------------------------------------------------------------
\* the function returned: its row versions become the committed ones
Commit(s) ==
    /\ tx[s].pc = "commit"
    /\ uaq' = View(uaq, tx[s].w_uaq)
    /\ quest_completions' = View(quest_completions, tx[s].w_qc)
    /\ xp_events' = xp_events \cup tx[s].w_xp
    /\ workout_logs' = View(workout_logs, tx[s].w_wl)
    /\ profiles' = View(profiles, tx[s].w_prof)
    /\ tx' = [tx EXCEPT ![s] = Idle]
    /\ groups' = groups \cup tx[s].w_groups
    /\ group_members' = group_members \cup tx[s].w_gm
    /\ page' = [page EXCEPT ![s] = rpc_data(@, tx[s].ret)]
    /\ UNCHANGED <<clock, rev, names, board,
                   dailyClaimed>>

\* raise exception: the transaction's row versions are discarded
Rollback(s) ==
    /\ tx[s].pc = "raised"
    /\ tx' = [tx EXCEPT ![s] = Idle]
    /\ page' = [page EXCEPT ![s] = rpc_error(@)]
    /\ UNCHANGED <<rev, uaq, quest_completions, xp_events, workout_logs,
                   profiles, clock, group_members, groups, names, board,
                   dailyClaimed>>

\* ---------------------------------------------------------------------
\* Calls a client makes.  User 1 plays; user 2 is another account (it
\* owns none of user 1's rows and has chosen no path); NULL is a caller
\* without a session.  A call that fails its first check is drawn once.
\* ---------------------------------------------------------------------
SelectInputs == {<<1, q>> : q \in QuestIds} \cup {<<2, 1>>, <<NULL, 1>>}
CompleteInputs ==
    {<<1, a>> : a \in Ids(uaq) \cup {NoSuchId}}
      \cup {<<2, a>> : a \in Ids(uaq)} \cup {<<NULL, NoSuchId>>}
LogInputs ==
    {<<1, d, c>> : d \in Dates, c \in BOOLEAN}
      \cup {<<1, NULL, TRUE>>, <<NULL, 1, TRUE>>}
\* the payload's bonus_walk_45 and bonus_run_45 flags
Payloads == {<<FALSE, FALSE>>, <<TRUE, FALSE>>, <<TRUE, TRUE>>}
\* log_workout with a payload: the flags are drawn for completed workouts
LogPayloadInputs ==
    {<<i[1], i[2], i[3], p>> : i \in {j \in LogInputs : j[3]}, p \in Payloads}
      \cup {<<i[1], i[2], i[3], <<FALSE, FALSE>>>> : i \in {j \in LogInputs : ~j[3]}}
\* the streak specifications log any date up to the last current date
StreakDates == 1 .. current_date(MaxClock)
StreakInputs ==
    {<<1, d, c>> : d \in StreakDates, c \in BOOLEAN} \cup {<<NULL, 1, TRUE>>}
StreakPayloadInputs == {<<i[1], i[2], i[3], <<FALSE, FALSE>>>> : i \in StreakInputs}
\* the ledger specifications play two quests, selected MaxRows - 2 times
SelectTwo ==
    IF Cardinality(AllUaq) < MaxRows - 2 THEN {<<1, 1>>, <<1, 2>>} ELSE {}
CompleteOwn == {<<1, a>> : a \in Ids(uaq)}
\* the specification of both revisions' quest RPCs plays two quests
SelectPair == {<<1, 1>>, <<1, 2>>, <<NULL, 1>>}
CompletePair == CompleteOwn \cup {<<1, NoSuchId>>}
\* a single client whose calls follow one another
OneClient == {1}

TxEnd(S) ==
    \/ \E s \in S : Commit(s)
    \/ \E s \in S : Rollback(s)

SelectCore(S, inputs) ==
    \/ \E s \in S, i \in inputs : select_quest_call(s, i[1], i[2])
    \/ \E s \in S : select_quest_insert(s)
    \/ \E s \in S : select_quest_reselect(s)

CompleteCore(S, inputs) ==
    \/ \E s \in S, i \in inputs : complete_quest_call(s, i[1], i[2])
    \/ \E s \in S : complete_quest_lock(s)
    \/ \E s \in S : complete_quest_already(s)
    \/ \E s \in S : complete_quest_record(s)
    \/ \E s \in S : complete_quest_profile(s)

WorkoutCore(S, inputs) ==
    \/ \E s \in S, i \in inputs : log_workout_call(s, i[1], i[2], i[3])
    \/ \E s \in S : log_workout_award(s)
    \/ \E s \in S : log_workout_streaks(s)

SelectFix(S, inputs) ==
    \/ \E s \in S, i \in inputs : select_quest_fix_call(s, i[1], i[2])
    \/ \E s \in S : select_quest_fix_refresh(s)
    \/ \E s \in S : select_quest_fix_insert(s)

CompleteFix(S, inputs) ==
    \/ \E s \in S, i \in inputs : complete_quest_fix_call(s, i[1], i[2])
    \/ \E s \in S : complete_quest_fix_record(s)
    \/ \E s \in S : complete_quest_fix_award(s)

WorkoutFix(S, inputs) ==
    \/ \E s \in S, i \in inputs :
          log_workout_fix_call(s, i[1], i[2], i[3], i[4])
    \/ \E s \in S : log_workout_fix_award(s)
    \/ \E s \in S : log_workout_fix_streaks(s)

\* the quest RPCs of the core migration, two sessions interleaved
NextQuest ==
    \/ SelectCore(Sessions, SelectInputs)
    \/ CompleteCore(Sessions, CompleteInputs)
    \/ TxEnd(Sessions)
SpecQuest == InitCore /\ [][NextQuest]_vars

\* select_quest of the core migration called in sequence by one client,
\* time passing between the calls
NextSeq == SelectCore(OneClient, SelectInputs) \/ TxEnd(OneClient) \/ Tick
SpecSeq == InitCore /\ [][NextSeq]_vars

\* the quest RPCs of either revision
NextQuestRevs ==
    \/ SelectCore(Sessions, SelectPair)
    \/ CompleteCore(Sessions, CompletePair)
    \/ SelectFix(Sessions, SelectPair)
    \/ CompleteFix(Sessions, CompletePair)
    \/ TxEnd(Sessions)
SpecQuestRevs == Init /\ [][NextQuestRevs]_vars

\* select_quest of either revision called in sequence by one client,
\* for every quest id
NextSelectRevs ==
    \/ SelectCore(OneClient, SelectInputs)
    \/ SelectFix(OneClient, SelectInputs)
    \/ TxEnd(OneClient)
SpecSelectRevs == Init /\ [][NextSelectRevs]_vars

\* the quest RPCs of the core migration, called in sequence by one
\* client, before and after select_quest is replaced by 20260301
NextPatched ==
    \/ SelectCore(OneClient, SelectPair)
    \/ CompleteCore(OneClient, CompletePair)
    \/ apply_select_quest_fix
    \/ SelectFix(OneClient, SelectPair)
    \/ TxEnd(OneClient)
SpecPatched == InitCore /\ [][NextPatched]_vars

\* log_workout of the core migration called in sequence by one client
\* over the days
NextStreak ==
    \/ WorkoutCore(OneClient, StreakInputs)
    \/ TxEnd(OneClient)
    \/ Tick
SpecStreak == InitCore /\ [][NextStreak]_vars

\* log_workout of either revision called in sequence over the days
NextStreakRevs ==
    \/ NextStreak
    \/ WorkoutFix(OneClient, StreakPayloadInputs)
SpecStreakRevs == Init /\ [][NextStreakRevs]_vars

\* the ledger of the core migration: quests, completions, workouts
Next ==
    \/ SelectCore(Sessions, SelectTwo)
    \/ CompleteCore(Sessions, CompleteOwn)
    \/ WorkoutCore(Sessions, LogInputs)
    \/ TxEnd(Sessions)
Spec == InitCore /\ [][Next]_vars

\* the ledger of either revision
NextRevs ==
    \/ Next
    \/ SelectFix(Sessions, SelectTwo)
    \/ CompleteFix(Sessions, CompleteOwn)
    \/ WorkoutFix(Sessions, LogPayloadInputs)
SpecRevs == Init /\ [][NextRevs]_vars

\* =====================================================================
\* get_leaderboard: core migration (lines 693-741), part_003 (lines
\* 613-647, rev "kept": the file before the later patches) and the
\* replacement of 20260301 (part_004 lines 136-175, rev "fix")
\* =====================================================================
\* the clock counts days from 1970-01-01, a Thursday (Monday = 0)
DaysPerWeek == 7
epoch_weekday == 3
\* '1970-01-01'::timestamptz, to_timestamp(0)
epoch == 0
\* fault variant: a rolling window of the last seven days
last_seven_days(now) == now - DaysPerWeek
\* date_trunc('week', now()): the Monday that starts now's week
date_trunc_week(now) == now - ((now + epoch_weekday) % DaysPerWeek)
\* the start of the requested window
v_cutoff(p_timeframe, now) ==
    IF p_timeframe = "weekly" THEN date_trunc_week(now) ELSE epoch

\* Names are written as their rank in the database's collation: '' sorts
\* first, then 'alice', 'bob', the 'Hunter#....' fallbacks and 'player'.
EmptyName == 1
Alice == 2
Bob == 3
\* concat('Hunter#', right(replace(user_id::text, '-', ''), 4))
Hunter(u) == 4 + u
\* the literal 'player'
player == 9
\* order by ... asc puts NULL after every value
name_key(n) == IF n = NULL THEN player + 1 ELSE n
\* nullif(x, '')
nullif_empty(n) == IF n = EmptyName THEN NULL ELSE n
\* coalesce(a, b, c)
coalesce(a, b, c) == IF a # NULL THEN a ELSE IF b # NULL THEN b ELSE c

\* from group_members gm where gm.group_id = p_group_id
Members(g) == {gm.user_id : gm \in {x \in group_members : x.group_id = g}}

\* fault variant: an inner join drops the members without a ledger row
\* in the window
inner_join_xp(members, cutoff) ==
    {u \in members : \E x \in xp_events : x.user_id = u /\ x.created_at >= cutoff}
\* members left join xp_events / left join sums: every member is kept
left_join_xp(members, cutoff) == members

\* coalesce(sum(x.amount), 0) over the user's ledger rows of the window
xp_since(u, cutoff) ==
    SumAmount({x \in xp_events : x.user_id = u /\ x.created_at >= cutoff})

\* fault variant: rank() leaves a gap after rows that tie
rank_with_gaps(rows, xp) == 1 + Cardinality({r \in rows : r.xp > xp})
\* dense_rank() over (order by coalesce(s.xp, 0) desc)
dense_rank(rows, xp) == 1 + Cardinality({r.xp : r \in {x \in rows : x.xp > xp}})

\* fault variant: order by xp desc alone
order_by_xp_only(a_xp, a_name, b_xp, b_name) == a_xp >= b_xp
\* order by xp desc, username asc: row a may come right before row b
order_by(a_xp, a_name, b_xp, b_name) ==
    \/ a_xp > b_xp
    \/ a_xp = b_xp /\ name_key(a_name) <= name_key(b_name)

\* the column the query sorts first: xp_total (core) or xp
sort_xp(r) == IF rev = "core" THEN r.xp_total ELSE r.xp

\* the orders in which the query may return its rows
OrderedRows(rows) ==
    LET n == Cardinality(rows)
    IN {q \in [1 .. n -> rows] :
          /\ \A i, j \in 1 .. n : i # j => q[i] # q[j]
          /\ \A i \in 1 .. n - 1 :
                order_by(sort_xp(q[i]), q[i].username,
                         sort_xp(q[i + 1]), q[i + 1].username)}

\* core, lines 727-739: select gm.user_id, p.username, coalesce(sum) ...
\* group by gm.user_id, p.username
leaderboard_core(g, cutoff) ==
    {[user_id |-> u, username |-> names[u].username,
      xp_total |-> xp_since(u, cutoff)] : u \in left_join_xp(Members(g), cutoff)}

\* the username column of part_003 (line 641) and of part_004 (164-168)
shown_name(u) ==
    IF rev = "kept"
      THEN coalesce(names[u].username, player, player)
      ELSE coalesce(nullif_empty(names[u].display_name),
                    nullif_empty(names[u].username), Hunter(u))

\* part_003 lines 639-647, part_004 lines 162-174
leaderboard_ranked(g, cutoff) ==
    LET rows == {[user_id |-> u, username |-> shown_name(u),
                  xp |-> xp_since(u, cutoff)] : u \in left_join_xp(Members(g), cutoff)}
    IN {[user_id |-> r.user_id, username |-> r.username, xp |-> r.xp,
         rank |-> dense_rank(rows, r.xp)] : r \in rows}

BoardUnchanged ==
    UNCHANGED <<rev, uaq, quest_completions, xp_events, workout_logs, profiles,
                clock, tx, group_members, groups, names, dailyClaimed, page>>

\* core get_leaderboard: authentication, membership test, the query
get_leaderboard_core(caller, g, tf) ==
    /\ rev = "core"
    /\ LET call == [NoBoard EXCEPT !.caller = caller, !.group = g,
                                    !.timeframe = tf]
       IN IF caller = NULL
            THEN board' = [call EXCEPT !.err = "NotAuthenticated"]
          ELSE IF caller \notin Members(g)
            THEN board' = [call EXCEPT !.err = "NotMember"]
          ELSE \E q \in OrderedRows(leaderboard_core(g, v_cutoff(tf, clock))) :
                  board' = [call EXCEPT !.rows = q]
    /\ BoardUnchanged

\* get_leaderboard of part_003 and of part_004: language sql, auth.uid()
\* is not read, the caller is not tested
get_leaderboard_ranked(caller, g, tf) ==
    /\ rev \in {"kept", "fix"}
    /\ \E q \in OrderedRows(leaderboard_ranked(g, v_cutoff(tf, clock))) :
          board' = [NoBoard EXCEPT !.caller = caller, !.group = g,
                                   !.timeframe = tf, !.rows = q]
    /\ BoardUnchanged

\* ---------------------------------------------------------------------
\* The tables a leaderboard is asked over.  Each user has logged the
\* day's workout on a Sunday, on the Monday after it, on both or on
\* neither (user 3: on the Monday or not), the rows being those
\* log_workout leaves; group 1 was made by user 1 and group 2 by user 3;
\* users 1 and 2 are in group 1 or not (a member may have left), user 3
\* is in group 1 or not and always in group 2; users 1 and 2 have any of
\* the names, user 3 none.
\* ---------------------------------------------------------------------
BoardNow == DaysPerWeek + 4
LogTimes == {BoardNow - 1, BoardNow}
\* the board is asked for on that Monday or on the Tuesday after it
BoardClocks == {BoardNow, BoardNow + 1}
BoardAmount == IF rev = "core" THEN workout_amount ELSE v_total_xp(<<FALSE, FALSE>>)
BoardSource == IF rev = "core" THEN "workout_log" ELSE "workout"
BoardLogId(u, t) == 2000 + u * 10 + current_date(t)
NamePairs ==
    IF rev = "fix"
      THEN {NoName,
            [username |-> Bob, display_name |-> EmptyName],
            [username |-> Bob, display_name |-> Alice],
            [username |-> EmptyName, display_name |-> NULL]}
      ELSE {NoName, [NoName EXCEPT !.username = Alice],
            [NoName EXCEPT !.username = Bob]}

InitBoard ==
    /\ rev \in {"core", "kept", "fix"}
    /\ uaq = {}
    /\ quest_completions = {}
    /\ clock \in BoardClocks
    /\ tx = [s \in Sessions |-> Idle]
    /\ board = NoBoard
    /\ dailyClaimed = {}
    /\ page = [b \in Sessions |-> NoPage]
    /\ \E logged \in [Users -> SUBSET LogTimes] :
          /\ logged[3] \subseteq {BoardNow}
          /\ workout_logs =
               UNION {{[id |-> BoardLogId(u, t), user_id |-> u,
                        log_date |-> current_date(t), completed |-> TRUE]
                         : t \in logged[u]} : u \in Users}
          /\ xp_events =
               UNION {{[id |-> 1, user_id |-> u, source_type |-> BoardSource,
                        source_id |-> BoardLogId(u, t), amount |-> BoardAmount,
                        created_at |-> t] : t \in logged[u]} : u \in Users}
          /\ profiles =
               {[id |-> u, total_xp |-> BoardAmount * Cardinality(logged[u]),
                 current_streak |-> Cardinality(logged[u]),
                 longest_streak |-> Cardinality(logged[u])] : u \in Users}
    /\ groups = {[id |-> 1, name |-> <<"o", "n", "e">>, created_by |-> 1,
                  invite_code |-> NullText],
                 [id |-> 2, name |-> <<"t", "w", "o">>, created_by |-> 3,
                  invite_code |-> NullText]}
    /\ \E g1 \in SUBSET Users :
          group_members =
            {[group_id |-> 1, user_id |-> u,
              role |-> IF u = 1 THEN "owner" ELSE "member"] : u \in g1}
              \cup {[group_id |-> 2, user_id |-> 3, role |-> "owner"]}
    /\ \E n \in [Users -> NamePairs] :
          /\ n[3] = NoName
          /\ names = n

BoardCallers == {1, 3, NULL}
Groups == {1, 2}
Timeframes == {"weekly", "all_time"}

\* get_leaderboard asked over those tables
NextBoard ==
    \/ \E c \in BoardCallers, g \in Groups, tf \in Timeframes :
          get_leaderboard_core(c, g, tf)
    \/ \E c \in BoardCallers, g \in Groups, tf \in Timeframes :
          get_leaderboard_ranked(c, g, tf)
SpecBoard == InitBoard /\ [][NextBoard]_vars

\* =====================================================================
\* Guilds: create_guild and join_guild_by_code (part_003, 20260227 patch),
\* the client's createGroup (part_000) and joinGuildById (part_001)
\* =====================================================================
\* groups a run creates
MaxGroups == 2
\* characters of an invite code, substr(..., 1, 8) in the source
CodeLen == 1

\* a text is a sequence of characters
Space == " "
upper_char(c) == IF c = "a" THEN "A" ELSE c
\* fault variant: the text as typed
upper_as_typed(t) == t
\* upper(text)
upper(t) == [i \in DOMAIN t |-> upper_char(t[i])]
RECURSIVE ltrim(_)
ltrim(t) == IF t # <<>> /\ Head(t) = Space THEN ltrim(Tail(t)) ELSE t
RECURSIVE rtrim(_)
rtrim(t) ==
    IF t # <<>> /\ t[Len(t)] = Space
      THEN rtrim(SubSeq(t, 1, Len(t) - 1)) ELSE t
\* trim(text)
trim(t) == rtrim(ltrim(t))

\* the hexadecimal digits a uuid's text is made of: a letter and a figure
HexDigits == {"a", "1"}
\* substr(replace(gen_random_uuid()::text, '-', ''), 1, 8)
UuidPrefixes == [1 .. CodeLen -> HexDigits]
\* length(trim(p_name)) < 3
min_name_length == 3

AllGroups == groups \cup UNION {tx[t].w_groups : t \in Sessions}
\* gen_random_uuid() for groups.id: the next group
NewGroupId == 1 + Cardinality(AllGroups)
\* unique index groups_invite_code_unique: an uncommitted row of another
\* session with the code makes the insert wait
CodeInsertBlocked(s, code) ==
    \E t \in Others(s) : \E g \in tx[t].w_groups : g.invite_code = code
\* primary key (group_id, user_id): an uncommitted row of another session
\* with the key makes the insert wait
MemberInsertBlocked(s, g, u) ==
    \E t \in Others(s) :
       \E m \in tx[t].w_gm : m.group_id = g /\ m.user_id = u
\* unique (group_id, user_id): a committed row has the key
MemberKeyTaken(g, u) ==
    \E m \in group_members : m.group_id = g /\ m.user_id = u
\* fault variant: no conflict is seen
MemberConflictNone(g, u) == {}
\* the committed row on conflict (group_id, user_id) finds
MemberConflict(g, u) ==
    {m \in group_members : m.group_id = g /\ m.user_id = u}

\* ---------------------------------------------------------------------
\* create_guild (part_003 815-845)
\* ---------------------------------------------------------------------
\* fault variant: the group row is written, on its own, before the
\* name's length is tested
create_guild_call_checks_late(s, u, p_name) ==
    /\ rev \in {"kept", "fix"}
    /\ tx[s].pc = "idle"
    /\ Cardinality(AllGroups) < MaxGroups
    /\ LET t == Call(s, "create_guild", u, NULL)
       IN IF u = NULL
            THEN /\ tx' = [tx EXCEPT ![s] = [t EXCEPT !.pc = "raised",
                                                      !.err = "NotAuthenticated"]]
                 /\ groups' = groups
          ELSE IF p_name = NullText \/ Len(trim(p_name)) < min_name_length
            THEN /\ tx' = [tx EXCEPT ![s] = [t EXCEPT !.pc = "raised",
                                                      !.err = "ValidationFailed"]]
                 /\ groups' = groups \cup {[id |-> NewGroupId,
                                             name |-> trim(p_name),
                                             created_by |-> u,
                                             invite_code |-> NullText]}
          ELSE /\ \E x \in UuidPrefixes :
                     tx' = [tx EXCEPT ![s] = [t EXCEPT !.pc = "cg_insert",
                                                       !.arg = p_name,
                                                       !.v_code = upper(x)]]
               /\ groups' = groups
    /\ UNCHANGED <<rev, uaq, quest_completions, xp_events, workout_logs,
                   profiles, clock, group_members, names, board,
                   dailyClaimed, page>>
\* lines 825-833: authentication, the name's length, v_code
create_guild_call(s, u, p_name) ==
    /\ rev \in {"kept", "fix"}
    /\ tx[s].pc = "idle"
    /\ Cardinality(AllGroups) < MaxGroups
    /\ LET t == Call(s, "create_guild", u, NULL)
       IN IF u = NULL
            THEN tx' = [tx EXCEPT ![s] = [t EXCEPT !.pc = "raised",
                                                   !.err = "NotAuthenticated"]]
          ELSE IF p_name = NullText \/ Len(trim(p_name)) < min_name_length
            THEN tx' = [tx EXCEPT ![s] = [t EXCEPT !.pc = "raised",
                                                   !.err = "ValidationFailed"]]
          ELSE \E x \in UuidPrefixes :
                  tx' = [tx EXCEPT ![s] = [t EXCEPT !.pc = "cg_insert",
                                                    !.arg = p_name,
                                                    !.v_code = upper(x)]]
    /\ UNCHANGED clock /\ DbUnchanged

\* lines 835-843: the group row, then the owner's membership row
create_guild_insert(s) ==
    /\ tx[s].pc = "cg_insert"
    /\ ~CodeInsertBlocked(s, tx[s].v_code)
    /\ IF \E g \in groups : g.invite_code = tx[s].v_code
         THEN Raise(s, "UniqueViolation")
       ELSE LET v_group_id == NewGroupId
            IN tx' = [tx EXCEPT
                 ![s].w_groups = {[id |-> v_group_id,
                                   name |-> trim(tx[s].arg),
                                   created_by |-> tx[s].user,
                                   invite_code |-> tx[s].v_code]},
                 ![s].w_gm = {[group_id |-> v_group_id,
                               user_id |-> tx[s].user, role |-> "owner"]},
                 ![s].v_group_id = v_group_id,
                 ![s].ret = [NoRet EXCEPT !.id = v_group_id],
                 ![s].pc = "commit"]
    /\ UNCHANGED clock /\ DbUnchanged

\* ---------------------------------------------------------------------
\* join_guild_by_code (part_003 847-875)
\* ---------------------------------------------------------------------
\* lines 857-867: authentication and the lookup by code
join_guild_by_code_call(s, u, p_code) ==
    /\ rev \in {"kept", "fix"}
    /\ tx[s].pc = "idle"
    /\ LET t == Call(s, "join_guild_by_code", u, p_code)
           found == {g \in groups : /\ g.invite_code # NullText
                                    /\ g.invite_code = upper(trim(p_code))}
       IN IF u = NULL
            THEN tx' = [tx EXCEPT ![s] = [t EXCEPT !.pc = "raised",
                                                   !.err = "NotAuthenticated"]]
          ELSE IF found = {}
            THEN tx' = [tx EXCEPT ![s] = [t EXCEPT !.pc = "raised",
                                                   !.err = "NotFound"]]
          ELSE tx' = [tx EXCEPT ![s] =
                        [t EXCEPT !.pc = "jg_insert",
                                  !.v_group_id = (CHOOSE g \in found : TRUE).id]]
    /\ UNCHANGED clock /\ DbUnchanged

\* fault variant: the member row is written whether or not the caller
\* has a row in the group
join_guild_by_code_insert_always(s) ==
    /\ tx[s].pc = "jg_insert"
    /\ ~MemberInsertBlocked(s, tx[s].v_group_id, tx[s].user)
    /\ tx' = [tx EXCEPT
           ![s].w_gm = {[group_id |-> tx[s].v_group_id,
                         user_id |-> tx[s].user, role |-> "member"]},
           ![s].ret = [NoRet EXCEPT !.id = tx[s].v_group_id],
           ![s].pc = "commit"]
    /\ UNCHANGED clock /\ DbUnchanged
\* lines 869-873: insert ... on conflict (group_id, user_id) do nothing;
\* return v_group_id
join_guild_by_code_insert(s) ==
    /\ tx[s].pc = "jg_insert"
    /\ ~MemberInsertBlocked(s, tx[s].v_group_id, tx[s].user)
    /\ IF MemberConflict(tx[s].v_group_id, tx[s].user) # {}
         THEN tx' = [tx EXCEPT
                ![s].ret = [NoRet EXCEPT !.id = tx[s].v_group_id],
                ![s].pc = "commit"]
       ELSE IF MemberKeyTaken(tx[s].v_group_id, tx[s].user)
         THEN Raise(s, "UniqueViolation")
       ELSE tx' = [tx EXCEPT
              ![s].w_gm = {[group_id |-> tx[s].v_group_id,
                            user_id |-> tx[s].user, role |-> "member"]},
              ![s].ret = [NoRet EXCEPT !.id = tx[s].v_group_id],
              ![s].pc = "commit"]
    /\ UNCHANGED clock /\ DbUnchanged

\* ---------------------------------------------------------------------
\* createGroup of the Groups page (part_000 918-945): two requests, each
\* a transaction of its own
\* ---------------------------------------------------------------------
\* policies on groups for select: a member of the group sees it (core
\* 272-281, part_003 361-369); part_004 92 lets every authenticated user
\* see every group.  insert ... returning needs the new row to be seen.
groups_select_policy(g_members, u) == rev = "fix" \/ u \in g_members

\* lines 919-931: the group row, inserted with .select('*').single()
createGroup_insert(s, u, newGroupName) ==
    /\ tx[s].pc = "idle"
    /\ Cardinality(AllGroups) < MaxGroups
    /\ u # NULL
    /\ trim(newGroupName) # <<>>
    /\ LET t == Call(s, "createGroup", u, NULL)
           id == NewGroupId
       IN IF groups_select_policy({}, u)
            THEN /\ groups' = groups \cup {[id |-> id,
                                            name |-> trim(newGroupName),
                                            created_by |-> u,
                                            invite_code |-> NullText]}
                 /\ tx' = [tx EXCEPT ![s] = [t EXCEPT !.pc = "cg_member",
                                                      !.v_group_id = id]]
          ELSE \* groupError: setError and return
               UNCHANGED <<groups, tx>>
    /\ UNCHANGED <<rev, uaq, quest_completions, xp_events, workout_logs,
                   profiles, clock, group_members, names, board,
                   dailyClaimed, page>>

\* lines 933-940: the owner's membership row; the request succeeds or
\* comes back with memberError
createGroup_member(s) ==
    /\ tx[s].pc = "cg_member"
    /\ \/ /\ group_members' = group_members \cup
                {[group_id |-> tx[s].v_group_id, user_id |-> tx[s].user,
                  role |-> "owner"]}
          /\ tx' = [tx EXCEPT ![s] = Idle]
       \/ \* memberError: setError and return
          /\ group_members' = group_members
          /\ tx' = [tx EXCEPT ![s] = Idle]
    /\ UNCHANGED <<rev, uaq, quest_completions, xp_events, workout_logs,
                   profiles, clock, groups, names, board,
                   dailyClaimed, page>>

\* ---------------------------------------------------------------------
\* joinGuildById of the guild browser (part_001 1878-1904): one insert,
\* an error that says duplicate is passed over, the group's id returned
\* ---------------------------------------------------------------------
joinGuildById(s, userId, groupId) ==
    /\ tx[s].pc = "idle"
    /\ rev = "fix"
    /\ userId # NULL
    /\ ~MemberInsertBlocked(s, groupId, userId)
    /\ IF MemberKeyTaken(groupId, userId)
         THEN \* duplicate key: passed over, groupId returned
              group_members' = group_members
       ELSE IF groupId \notin Ids(groups)
         THEN \* foreign key violation: thrown
              group_members' = group_members
       ELSE group_members' = group_members \cup
               {[group_id |-> groupId, user_id |-> userId, role |-> "member"]}
    /\ UNCHANGED <<rev, uaq, quest_completions, xp_events, workout_logs,
                   profiles, clock, tx, groups, names, board,
                   dailyClaimed, page>>

\* ---------------------------------------------------------------------
\* Guild runs: the tables are empty, users 1 and 2 and a caller without
\* a session make and join guilds on two sessions
\* ---------------------------------------------------------------------
InitGuild ==
    /\ rev \in {"kept", "fix"}
    /\ uaq = {}
    /\ quest_completions = {}
    /\ xp_events = {}
    /\ workout_logs = {}
    /\ profiles = {[id |-> u, total_xp |-> 0, current_streak |-> 0,
                    longest_streak |-> 0] : u \in Users}
    /\ clock = 0
    /\ tx = [s \in Sessions |-> Idle]
    /\ group_members = {}
    /\ groups = {}
    /\ names = [u \in Users |-> NoName]
    /\ board = NoBoard
    /\ dailyClaimed = {}
    /\ page = [b \in Sessions |-> NoPage]

GuildCallers == {1, 2, NULL}
GuildNames == {NullText, <<"a", "b", Space>>, <<"a", "b", "c">>}
\* codes a user types: each character a letter in either case or the
\* figure, and the lower-case code with blanks around it
TypedCodes ==
    [1 .. CodeLen -> {"a", "A", "1"}]
      \cup {<<Space>> \o t \o <<Space>> : t \in [1 .. CodeLen -> {"a"}]}
\* what two sessions run at once: user 1 makes guilds, user 2 joins
\* with the lower-case code
Founders == {1}
Joiners == {2}
GoodNames == {<<"a", "b", "c">>}
LowerCodes == [1 .. CodeLen -> {"a"}]

GuildRpc(S, founders, joiners, gnames, codes) ==
    \/ \E s \in S, u \in founders, n \in gnames : create_guild_call(s, u, n)
    \/ \E s \in S : create_guild_insert(s)
    \/ \E s \in S, u \in joiners, c \in codes :
          join_guild_by_code_call(s, u, c)
    \/ \E s \in S : join_guild_by_code_insert(s)

GuildClient(S, callers) ==
    \/ \E s \in S, u \in callers, n \in GoodNames : createGroup_insert(s, u, n)
    \/ \E s \in S : createGroup_member(s)
    \/ \E s \in S, u \in callers, g \in 1 .. MaxGroups :
          joinGuildById(s, u, g)

\* one client after the other: every caller, name and code
NextGuildSeq ==
    \/ GuildRpc(OneClient, GuildCallers, GuildCallers, GuildNames, TypedCodes)
    \/ GuildClient(OneClient, {1, 2})
    \/ TxEnd(OneClient)
SpecGuildSeq == InitGuild /\ [][NextGuildSeq]_vars
\* every RPC, called in sequence by one client with inputs that pass and
\* inputs that fail each check: the quest and workout RPCs of the core
\* migration and of the later revision, the guild RPCs (the same in
\* part_003 and after part_004) in the database of part_003
InitFail == InitGuild \/ Init
\* a workout logged, a call without a date, a call without a session
FailLog == {<<1, 1, TRUE>>, <<1, NULL, TRUE>>, <<NULL, 1, TRUE>>}
FailLogPayload == {<<i[1], i[2], i[3], <<FALSE, FALSE>>>> : i \in FailLog}
NextFail ==
    \/ SelectCore(OneClient, SelectInputs)
    \/ CompleteCore(OneClient, CompleteInputs)
    \/ WorkoutCore(OneClient, FailLog)
    \/ SelectFix(OneClient, SelectInputs)
    \/ CompleteFix(OneClient, CompleteInputs)
    \/ WorkoutFix(OneClient, FailLogPayload)
    \/ /\ rev = "kept"
       /\ GuildRpc(OneClient, {1, NULL}, {2, NULL}, GuildNames, LowerCodes)
    \/ TxEnd(OneClient)
SpecFail == InitFail /\ [][NextFail]_vars
\* two sessions at once
NextGuild ==
    \/ GuildRpc(Sessions, Founders, Joiners, GoodNames, LowerCodes)
    \/ GuildClient(Sessions, Joiners)
    \/ TxEnd(Sessions)
SpecGuild == InitGuild /\ [][NextGuild]_vars

\* =====================================================================
\* Writes the client sends to the tables themselves, under row level
\* security (core migration 208-269, part_003 209-352)
\* =====================================================================
\* fault variant: a policy for every command
xp_events_policies_all == {"select", "insert", "update", "delete"}
\* the commands xp_events has a policy for: xp_events_own_select alone
xp_events_policies == {"select"}
\* what the daily claim adds (part_001 913)
daily_claim_xp == 10

\* a request of user u on its own xp_events rows: a command without a
\* policy inserts nothing and finds no row
xp_events_direct(u, cmd) ==
    /\ u # NULL
    /\ \A t \in Sessions : tx[t].w_xp = {}
    /\ IF cmd \notin xp_events_policies
         THEN xp_events' = xp_events
       ELSE IF cmd = "insert"
         THEN xp_events' = xp_events \cup
                {[id |-> NewXpId(<<u, "client", NULL>>), user_id |-> u,
                  source_type |-> "client", source_id |-> NULL,
                  amount |-> daily_claim_xp]}
       ELSE IF cmd = "update"
         THEN xp_events' = {[e EXCEPT !.amount = IF e.user_id = u
                                                   THEN daily_claim_xp ELSE @]
                              : e \in xp_events}
       ELSE xp_events' = {e \in xp_events : e.user_id # u}
    /\ UNCHANGED <<rev, uaq, quest_completions, workout_logs, profiles, clock,
                   tx, group_members, groups, names, board, dailyClaimed, page>>

\* both browsers are signed in as user 1: profile.id
profile_id(b) == 1

\* onProfileRefresh (part_001 4376-4382, fetchProfile 4134-4158): the app
\* loads the profiles row again
onProfileRefresh(b) ==
    /\ page[b].pc = "idle"
    /\ page' = [page EXCEPT
                  ![b].profile = ProfileOf(profiles, profile_id(b)).total_xp]
    /\ UNCHANGED <<rev, uaq, quest_completions, xp_events, workout_logs,
                   profiles, clock, tx, group_members, groups, names, board,
                   dailyClaimed>>

\* onClaimDailyXp of the dashboard (part_001 908-948): once per browser
\* and day, profiles.total_xp := totalXP + 10 under profiles_update_own;
\* totalXP is the profile as the app last loaded it; the update waits
\* for a transaction that holds the row; then the claim key is stored
\* and the profile loaded again
onClaimDailyXp(b) ==
    /\ page[b].pc = "idle"
    /\ b \notin dailyClaimed
    /\ \A t \in Sessions : profile_id(b) \notin Ids(tx[t].w_prof)
    /\ LET p == ProfileOf(profiles, profile_id(b))
           totalXP == page[b].profile
           nextTotal == totalXP + daily_claim_xp
       IN /\ profiles' = (profiles \ {p}) \cup {[p EXCEPT !.total_xp = nextTotal]}
          /\ page' = [page EXCEPT ![b].profile = nextTotal]
    /\ dailyClaimed' = dailyClaimed \cup {b}
    /\ UNCHANGED <<rev, uaq, quest_completions, xp_events, workout_logs,
                   clock, tx, group_members, groups, names, board>>

DirectCommands == {"insert", "update", "delete"}
\* user 1 plays through the RPCs of either revision, one call after the
\* other, and between their steps writes to the tables itself
NextClient ==
    \/ SelectCore(OneClient, SelectTwo)
    \/ CompleteCore(OneClient, CompleteOwn)
    \/ WorkoutCore(OneClient, LogInputs)
    \/ SelectFix(OneClient, SelectTwo)
    \/ CompleteFix(OneClient, CompleteOwn)
    \/ WorkoutFix(OneClient, LogPayloadInputs)
    \/ TxEnd(OneClient)
    \/ \E cmd \in DirectCommands : xp_events_direct(1, cmd)
    \/ onClaimDailyXp(1)
SpecClient == Init /\ [][NextClient]_vars

\* =====================================================================
\* The gym page (part_001 2643-2820): submitWorkoutLog calls log_workout,
\* loads the profile again and, when the total it then sees is not above
\* the one it held before, adds the XP itself with incrementProfileXp
\* =====================================================================
\* total_xp up to which the page logs another workout
MaxXp == 60
\* sessionXp: nothing ticked, or exercises worth 5 XP ticked
SessionXps == {0, 5}
\* logDate, the form's date: todayIso()
logDate == current_date(clock)
\* (bonusWalk45 ? 10 : 0) + (bonusRun45 ? 15 : 0), line 2762
bonusXp(payload) ==
    (IF payload[1] THEN 10 ELSE 0) + (IF payload[2] THEN 15 ELSE 0)

\* lines 2759-2777: the form is read, beforeXp is the cached profile's
\* total, supabase.rpc('log_workout', ...) is sent
submitWorkoutLog(b, completedValue, payload, sessionXp) ==
    /\ page[b].pc = "idle" /\ tx[b].pc = "idle"
    /\ ProfileOf(profiles, profile_id(b)).total_xp < MaxXp
    /\ page' = [page EXCEPT ![b] =
                  [@ EXCEPT !.pc = "rpc", !.completed = completedValue,
                            !.payload = payload, !.sessionXp = sessionXp,
                            !.beforeXp = page[b].profile]]
    /\ UNCHANGED <<rev, uaq, quest_completions, xp_events, workout_logs,
                   profiles, clock, tx, group_members, groups, names, board,
                   dailyClaimed>>

\* line 2805
expectedFallbackXp(awardedXp, finalCompleted, sessionXp, bonus) ==
    IF awardedXp > 0 THEN awardedXp
    ELSE IF finalCompleted THEN sessionXp + bonus ELSE bonus

\* lines 2785-2806, 2820: the RPC returned; onProfileRefresh; the
\* fallback is taken when XP was expected and afterXp <= beforeXp
submitWorkoutLog_result(b) ==
    /\ page[b].pc = "result"
    /\ LET pg == page[b]
           afterXp == ProfileOf(profiles, profile_id(b)).total_xp
           expected == expectedFallbackXp(pg.awardedXp, pg.completed,
                                          pg.sessionXp, bonusXp(pg.payload))
       IN page' = [page EXCEPT ![b] =
                     IF expected > 0 /\ afterXp <= pg.beforeXp
                       THEN [pg EXCEPT !.profile = afterXp,
                                       !.pc = "inc_select",
                                       !.delta = expected]
                       ELSE [NoPage EXCEPT !.profile = afterXp]]
    /\ UNCHANGED <<rev, uaq, quest_completions, xp_events, workout_logs,
                   profiles, clock, tx, group_members, groups, names, board,
                   dailyClaimed>>

\* incrementProfileXp (part_001 67-108), lines 73-88: the profiles row is
\* read, next = current + delta
incrementProfileXp_select(b) ==
    /\ page[b].pc = "inc_select"
    /\ LET current == ProfileOf(profiles, profile_id(b)).total_xp
       IN page' = [page EXCEPT ![b].pc = "inc_update",
                               ![b].next = current + page[b].delta]
    /\ UNCHANGED <<rev, uaq, quest_completions, xp_events, workout_logs,
                   profiles, clock, tx, group_members, groups, names, board,
                   dailyClaimed>>

\* lines 90-107: update profiles set total_xp = next, which waits for a
\* transaction that holds the row; then submitWorkoutLog loads the
\* profile again (2812)
incrementProfileXp_update(b) ==
    /\ page[b].pc = "inc_update"
    /\ \A t \in Sessions : profile_id(b) \notin Ids(tx[t].w_prof)
    /\ LET p == ProfileOf(profiles, profile_id(b))
       IN profiles' = (profiles \ {p}) \cup
                         {[p EXCEPT !.total_xp = page[b].next]}
    /\ page' = [page EXCEPT ![b] = [NoPage EXCEPT !.profile = page[b].next]]
    /\ UNCHANGED <<rev, uaq, quest_completions, xp_events, workout_logs,
                   clock, tx, group_members, groups, names, board,
                   dailyClaimed>>

\* what the form holds: completed, the bonus flags, sessionXp
Forms == BOOLEAN \X Payloads \X SessionXps
\* a workout done with exercises ticked and no bonus
PlainForms == {<<TRUE, <<FALSE, FALSE>>, 5>>}
\* auth.uid() of a browser's request: its user, or none once the session
\* has expired
AuthUids(b) == {profile_id(b), NULL}

\* the browsers in S use the gym page and the dashboard
PageFlow(S, forms) ==
    \/ \E b \in S, f \in forms : submitWorkoutLog(b, f[1], f[2], f[3])
    \/ \E s \in S : \E u \in AuthUids(s) :
          /\ page[s].pc = "rpc"
          /\ log_workout_call(s, u, logDate, page[s].completed)
    \/ \E s \in S : log_workout_award(s)
    \/ \E s \in S : log_workout_streaks(s)
    \/ \E s \in S : \E u \in AuthUids(s) :
          /\ page[s].pc = "rpc"
          /\ log_workout_fix_call(s, u, logDate, page[s].completed,
                                  page[s].payload)
    \/ \E s \in S : log_workout_fix_award(s)
    \/ \E s \in S : log_workout_fix_streaks(s)
    \/ \E b \in S : submitWorkoutLog_result(b)
    \/ \E b \in S : incrementProfileXp_select(b)
    \/ \E b \in S : incrementProfileXp_update(b)
    \/ \E b \in S : onProfileRefresh(b)
    \/ \E b \in S : onClaimDailyXp(b)
    \/ TxEnd(S)

\* one browser
NextGym == PageFlow(OneClient, Forms)
SpecGym == Init /\ [][NextGym]_vars
\* two browsers of the same user at once
NextPage == PageFlow(Sessions, PlainForms)
SpecPage == Init /\ [][NextPage]_vars

\* =====================================================================
\* Properties
\* =====================================================================
LedgerOf(u) == {e \in xp_events : e.user_id = u}
\* one ledger row per source key of the user
OnePerKey(u) ==
    {CHOOSE e \in LedgerOf(u) : XpKey(e) = k : k \in {XpKey(x) : x \in LedgerOf(u)}}
ActiveOf(u) == {r \in uaq : r.user_id = u /\ r.status = "active"}
CompleteAt(s, pc) == tx[s].op = "complete_quest" /\ tx[s].pc = pc
SelectAt(s, pc) == tx[s].op = "select_quest" /\ tx[s].pc = pc

C2_CacheMatchesLedger ==
    \A u \in Users : ProfileOf(profiles, u).total_xp = SumAmount(LedgerOf(u))

\* the later revision has committed a quest award and a workout award
C2_Witness ==
    /\ rev = "fix"
    /\ \E e1, e2 \in LedgerOf(1) :
          e1.source_type = "quest" /\ e2.source_type = "workout"
    /\ ProfileOf(profiles, 1).total_xp > 0

C4_IdempotentCompletion ==
    \A s \in Sessions :
       tx[s].op = "complete_quest" /\ tx[s].v_status = "completed" =>
          /\ tx[s].pc \in {"cq_already", "commit"}
          /\ tx[s].w_uaq = {} /\ tx[s].w_qc = {}
          /\ tx[s].w_xp = {} /\ tx[s].w_prof = {}
          /\ tx[s].pc = "commit" =>
                ~tx[s].ret.awarded /\ tx[s].ret.awarded_xp = 0

\* a second completion of a completed assignment is about to return
C4_Witness ==
    \E s \in Sessions :
       /\ CompleteAt(s, "commit") /\ tx[s].v_status = "completed"
       /\ CompletionConflict(quest_completions, tx[s].arg) # {}

C6_ReselectNeverFails ==
    /\ \A s \in OneClient :
          SelectAt(s, "raised") =>
             ActiveConflict(uaq, tx[s].user, tx[s].arg) = {}
    /\ \A u \in Users, q \in Quests :
          Cardinality(ActiveConflict(uaq, u, q)) <= 1

\* C7 (re-selection refreshes selected_at), as stated: with one client
\* calling in sequence, a select_quest that returns for a pair with a
\* committed active assignment leaves that assignment with selected_at =
\* the time of this call, and no other row or field changed.
C7_ReselectRefreshes ==
    \A s \in OneClient :
       SelectAt(s, "commit")
         /\ ActiveConflict(uaq, tx[s].user, tx[s].arg) # {} =>
          /\ \A r \in ActiveConflict(VisUaq(s), tx[s].user, tx[s].arg) :
                r.selected_at = tx[s].now
          /\ \A r \in uaq :
                r \notin ActiveConflict(uaq, tx[s].user, tx[s].arg)
                   => r \in VisUaq(s)
          /\ Ids(VisUaq(s)) = Ids(uaq)

\* C8 (one active assignment per pair): in every committed state, under
\* either revision and any interleaving of select_quest and
\* complete_quest, no two distinct rows of user_active_quests are active
\* for the same user and quest.
C8_OneActivePerPair ==
    \A r1, r2 \in uaq :
       /\ r1.user_id = r2.user_id /\ r1.quest_id = r2.quest_id
       /\ r1.status = "active" /\ r2.status = "active"
       => r1 = r2

\* two select_quest calls of one user for one quest run together: one has
\* inserted and not committed, the other waits at its insert
C8_Witness ==
    \E s, t \in Sessions :
       /\ s # t
       /\ SelectAt(s, "commit") /\ tx[s].w_uaq # {}
       /\ SelectAt(t, "sq_insert")
       /\ tx[t].user = tx[s].user /\ tx[t].arg = tx[s].arg

\* C9 (the cap is an invariant), as stated for the cap of 3: no user has
\* more than 3 committed active assignments.
C9_CapInvariant ==
    \A u \in Users : Cardinality(ActiveOf(u)) <= 3

C11_CompletedTerminal ==
    [][\A r \in uaq :
         /\ \E r2 \in uaq' : r2.id = r.id
         /\ r.status = "completed" =>
               \A r2 \in uaq' : r2.id = r.id => r2.status = "completed"
      ]_vars

LogAt(s, pc) == tx[s].op = "log_workout" /\ tx[s].pc = pc
WorkoutEvents(rows, id) ==
    {e \in rows : e.source_type = "workout_log" /\ e.source_id = id}

TodayOf(s) == tx[s].now + 1
\* the n days back from date d are all in days and the day before is not
RunBack(days, d, n) ==
    /\ \A k \in 0 .. n - 1 : d - k \in days
    /\ d - n \notin days

\* C14 (current streak): a log_workout of the core migration about to
\* return has stored, and returns, as current_streak the number n such
\* that the n days back from the current date each have a completed log
\* of the user and the day before them has none; it is 0 when the
\* current date has no completed log; and its commit stores that value.
C14_CurrentStreak ==
    [][\A s \in OneClient :
         LogAt(s, "commit") =>
            LET u == tx[s].user
                days == CompletedDates(VisWl(s), u)
                n == ProfileOf(VisProf(s), u).current_streak
            IN /\ RunBack(days, TodayOf(s), n)
               /\ TodayOf(s) \notin days => n = 0
               /\ tx[s].ret.current_streak = n
               /\ tx'[s].pc = "idle" =>
                     /\ ProfileOf(profiles', u).current_streak = n
                     /\ CompletedDates(workout_logs', u) = days
      ]_vars

\* the example of the doc: completed logs for today, yesterday and the
\* day before, none for the day before that, return current_streak = 3
C14_Witness ==
    \E s \in OneClient :
       /\ LogAt(s, "commit")
       /\ TodayOf(s) = 4
       /\ CompletedDates(VisWl(s), tx[s].user) = {2, 3, 4}
       /\ tx[s].ret.current_streak = 3

\* the length of the run of consecutive completed days that ends at the
\* user's latest completed date
LatestRun(days) ==
    IF days = {} THEN 0
    ELSE CHOOSE n \in 1 .. Cardinality(days) : RunBack(days, SetMax(days), n)

\* C15 (the streak ends at the most recent completed day), as stated: a
\* log_workout about to return reports as current streak the length of
\* the consecutive completed run that ends at the user's latest completed
\* date, whether or not that date is the current date, and the client's
\* calcStreaks shows the same from the committed rows.
C15_StreakEndsAtLatest ==
    /\ \A s \in OneClient :
          LogAt(s, "commit") =>
             tx[s].ret.current_streak
               = LatestRun(CompletedDates(VisWl(s), tx[s].user))
    /\ \A u \in Users :
          calcStreaks(workout_logs, u, clock + 1).current
            = LatestRun(CompletedDates(workout_logs, u))

\* the length of the longest maximal run of consecutive dates in days
LongestRun(days) ==
    SetMax({n \in 1 .. Cardinality(days) : \E d \in days : RunBack(days, d, n)})

\* C16 (longest streak), as stated for either revision: the commit of a
\* log_workout stores longest_streak = max(the longest_streak stored
\* before, L), L being the length of the longest maximal run of
\* consecutive dates among the user's completed log dates, in whatever
\* order the dates were logged.
C16_LongestStreak ==
    [][\A s \in OneClient :
         LogAt(s, "commit") /\ tx'[s].pc = "idle" =>
            LET u == tx[s].user
                before == ProfileOf(profiles, u).longest_streak
                L == LongestRun(CompletedDates(workout_logs', u))
            IN ProfileOf(profiles', u).longest_streak = greatest(before, L)
      ]_vars

\* C17 (longest_streak never decreases): under either revision no step,
\* and so no log_workout call, whatever it overwrites, leaves a user's
\* stored longest_streak smaller than it was.
C17_LongestNeverDecreases ==
    [][\A u \in Users :
         ProfileOf(profiles', u).longest_streak
           >= ProfileOf(profiles, u).longest_streak
      ]_vars

\* a completed day of a two-day run has been overwritten with completed =
\* false: the stored longest_streak is above every run the logs still hold
C17_Witness ==
    /\ rev = "core"
    /\ ProfileOf(profiles, 1).longest_streak = 2
    /\ LongestRun(CompletedDates(workout_logs, 1)) = 1
    /\ \E l \in workout_logs : l.user_id = 1 /\ ~l.completed

\* the summed XP of a returned row, whichever variant returned it
RowXp(r) == IF rev = "core" THEN r.xp_total ELSE r.xp
\* a leaderboard has been returned
Returned == board.group # NULL /\ board.err = ""
RowIdx == 1 .. Len(board.rows)
\* the user's ledger rows inside the window the board was asked for
InWindow(u) ==
    {x \in xp_events :
       /\ x.user_id = u
       /\ \/ board.timeframe # "weekly"
          \/ x.created_at >= date_trunc_week(clock)}

\* C18 (leaderboard completeness): a get_leaderboard that returns, in
\* any of the three variants, returns exactly one row for each member of
\* the group and none for anybody else; each row carries the sum of the
\* member's ledger amounts inside the requested window, which is 0 for a
\* member with no ledger row in it.
C18_BoardComplete ==
    Returned =>
       /\ {board.rows[i].user_id : i \in RowIdx} = Members(board.group)
       /\ \A i, j \in RowIdx :
             board.rows[i].user_id = board.rows[j].user_id => i = j
       /\ \A i \in RowIdx :
             LET u == board.rows[i].user_id
             IN /\ RowXp(board.rows[i]) = SumAmount(InWindow(u))
                /\ InWindow(u) = {} => RowXp(board.rows[i]) = 0

\* the example of the doc: the weekly board of a group of 3 members, one
\* of which has ledger rows but none in the window, has 3 rows, that
\* member's with xp 0
C18_Witness ==
    /\ Returned /\ board.timeframe = "weekly"
    /\ Cardinality(Members(board.group)) = 3
    /\ Len(board.rows) = 3
    /\ \E i \in RowIdx :
          /\ RowXp(board.rows[i]) = 0
          /\ \E x \in xp_events : x.user_id = board.rows[i].user_id
    /\ \E i \in RowIdx : RowXp(board.rows[i]) > 0

\* C19 (leaderboard ordering): in the rows a get_leaderboard returns, in
\* any of the three variants, no row has more summed XP than a row before
\* it, and of two rows with equal summed XP that both carry a name the
\* earlier one's name is not after the later one's.
C19_BoardOrdered ==
    Returned =>
       \A i, j \in RowIdx :
          i < j =>
             /\ RowXp(board.rows[i]) >= RowXp(board.rows[j])
             /\ ( /\ RowXp(board.rows[i]) = RowXp(board.rows[j])
                  /\ board.rows[i].username # NULL
                  /\ board.rows[j].username # NULL )
                => board.rows[i].username <= board.rows[j].username

\* a board of three rows: the first two tie on XP and come in name order
\* against the order of their user ids, the third has less XP
C19_Witness ==
    /\ Returned /\ Len(board.rows) = 3
    /\ RowXp(board.rows[1]) = RowXp(board.rows[2])
    /\ RowXp(board.rows[2]) > RowXp(board.rows[3])
    /\ board.rows[1].username # NULL
    /\ board.rows[1].username < board.rows[2].username
    /\ board.rows[1].user_id > board.rows[2].user_id

\* C20 (dense rank): in the variants that compute rank, each returned
\* row's rank is 1 plus the number of distinct summed-XP values among the
\* group's members that are strictly greater than the row's summed XP, so
\* rows with equal XP share a rank and the ranks used have no gap.
C20_DenseRank ==
    Returned /\ rev \in {"kept", "fix"} =>
       /\ \A i \in RowIdx :
             board.rows[i].rank =
               1 + Cardinality({SumAmount(InWindow(u)) :
                      u \in {m \in Members(board.group) :
                                SumAmount(InWindow(m)) > board.rows[i].xp}})
       /\ \A i, j \in RowIdx :
             board.rows[i].xp = board.rows[j].xp
               => board.rows[i].rank = board.rows[j].rank
       /\ {board.rows[i].rank : i \in RowIdx}
             = 1 .. Cardinality({board.rows[i].rank : i \in RowIdx})

\* two members tie on the highest XP and share rank 1, the third member
\* has rank 2
C20_Witness ==
    /\ Returned /\ rev \in {"kept", "fix"}
    /\ Len(board.rows) = 3
    /\ board.rows[1].xp = board.rows[2].xp
    /\ board.rows[1].rank = 1 /\ board.rows[2].rank = 1
    /\ board.rows[3].xp < board.rows[2].xp
    /\ board.rows[3].rank = 2

\* 1970-01-05, day 4 of the clock, was a Monday: the Monday on or before
\* day d
MondayOf(d) == CHOOSE w \in (d - 6) .. d : (w - 4) % 7 = 0

\* C21 (leaderboard windows): each row of a returned leaderboard carries,
\* for timeframe weekly, the sum of the amounts of the member's ledger
\* rows created on or after the Monday of the current week, and for
\* timeframe all_time the sum of the amounts of all its ledger rows.
C21_BoardWindow ==
    Returned =>
       \A i \in RowIdx :
          LET u == board.rows[i].user_id
              mine == {x \in xp_events : x.user_id = u}
          IN /\ board.timeframe = "weekly" =>
                   RowXp(board.rows[i]) =
                     SumAmount({x \in mine : x.created_at >= MondayOf(clock)})
             /\ board.timeframe = "all_time" =>
                   RowXp(board.rows[i]) = SumAmount(mine)

\* on the Tuesday the weekly board shows a member only its Monday award
\* where the all-time sum of that member is twice as much
C21_Witness ==
    /\ Returned /\ board.timeframe = "weekly"
    /\ clock = BoardNow + 1
    /\ \E i \in RowIdx :
          /\ RowXp(board.rows[i]) = BoardAmount
          /\ SumAmount({x \in xp_events : x.user_id = board.rows[i].user_id})
                = 2 * BoardAmount

\* a call of get_leaderboard has ended
Asked == board.group # NULL

\* C22 (leaderboard access): a call of get_leaderboard without an
\* authenticated caller ends with NotAuthenticated, a call by an
\* authenticated user who is not a member of the group ends with the
\* membership error, and neither returns a row.
C22_BoardAccess ==
    Asked =>
       /\ board.caller = NULL =>
             board.err = "NotAuthenticated" /\ board.rows = <<>>
       /\ (board.caller # NULL /\ board.caller \notin Members(board.group)) =>
             board.err = "NotMember" /\ board.rows = <<>>

\* C23 (group and owner together): every committed group has the
\* membership row of its creator, with role owner.
C23_OwnerMember ==
    \A g \in groups :
       \E m \in group_members :
          /\ m.group_id = g.id
          /\ m.user_id = g.created_by
          /\ m.role = "owner"

JoinAt(s, pc) == tx[s].op = "join_guild_by_code" /\ tx[s].pc = pc
\* the membership rows of the caller of session s in the group it joins
JoinRows(s, rows) ==
    {m \in rows : m.group_id = tx[s].v_group_id /\ m.user_id = tx[s].user}

\* C24 (idempotent join): a join_guild_by_code that has found its group
\* ends without error and returns that group's id, writes nothing when
\* the caller is a member already, and when it commits the caller has
\* exactly one membership row in the group, however many times and on
\* however many sessions the caller has joined.
C24_JoinOnce ==
    [][\A s \in Sessions :
          /\ (JoinAt(s, "jg_insert") /\ tx'[s].pc # "jg_insert") =>
                /\ tx'[s].pc = "commit"
                /\ tx'[s].ret.id = tx[s].v_group_id
                /\ JoinRows(s, group_members) # {} => tx'[s].w_gm = {}
          /\ (JoinAt(s, "commit") /\ tx'[s].pc = "idle") =>
                Cardinality(JoinRows(s, group_members')) = 1]_vars

\* user 2 is a member, and two joins of user 2 for the same group are
\* about to commit, neither writing a row
C24_Witness ==
    /\ \A s \in Sessions :
          /\ JoinAt(s, "commit") /\ tx[s].user = 2 /\ tx[s].w_gm = {}
          /\ JoinRows(s, group_members) # {}
    /\ tx[1].v_group_id = tx[2].v_group_id

NotBlank(c) == c # Space
lower_char(c) == IF c = "A" THEN "a" ELSE c
\* two texts are the same but for the case of their letters and blanks
SameCode(a, b) ==
    LET x == SelectSeq(a, NotBlank)
        y == SelectSeq(b, NotBlank)
    IN /\ Len(x) = Len(y)
       /\ \A i \in 1 .. Len(x) : lower_char(x[i]) = lower_char(y[i])
\* the groups create_guild made whose invite code is the typed one in
\* some case
GroupsOfCode(code) ==
    {g \in groups : g.invite_code # NullText /\ SameCode(code, g.invite_code)}

\* C25 (lookup by code): an authenticated join_guild_by_code whose code
\* is, in whatever case, the invite code of a group create_guild made
\* goes on with that group's id; with a code of no group it fails with
\* NotFound, has written no membership row, and its end leaves
\* group_members as it was.
C25_CodeLookup ==
    [][\A s \in Sessions :
          /\ (tx[s].pc = "idle" /\ tx'[s].op = "join_guild_by_code"
                 /\ tx'[s].user # NULL) =>
                IF GroupsOfCode(tx'[s].arg) # {}
                  THEN /\ tx'[s].pc = "jg_insert"
                       /\ \E g \in GroupsOfCode(tx'[s].arg) :
                             tx'[s].v_group_id = g.id
                ELSE /\ tx'[s].pc = "raised"
                     /\ tx'[s].err = "NotFound"
                     /\ tx'[s].w_gm = {}
          /\ (JoinAt(s, "raised") /\ tx'[s].pc = "idle") =>
                group_members' = group_members]_vars

\* a join has found the group whose code is all A from the code typed
\* all a
C25_Witness ==
    \E s \in Sessions :
       /\ JoinAt(s, "jg_insert")
       /\ tx[s].arg = [i \in 1 .. CodeLen |-> "a"]
       /\ \E g \in groups :
             /\ g.id = tx[s].v_group_id
             /\ g.invite_code = [i \in 1 .. CodeLen |-> "A"]

\* C26 (quest validation): a select_quest of user 1, who has chosen a
\* path, for a quest id that is missing or inactive raises NotFound, and
\* for a quest of another path raises PathMismatch.
C26_QuestValidated ==
    [][\A s \in Sessions :
          (tx[s].pc = "idle" /\ tx'[s].op = "select_quest"
             /\ tx'[s].user = 1) =>
             LET q == tx'[s].arg
             IN IF q \notin Quests \/ ~quest_is_active(q)
                  THEN tx'[s].pc = "raised" /\ tx'[s].err = "NotFound"
                ELSE quest_path_key(q) # profile_path_key(1) =>
                       tx'[s].pc = "raised" /\ tx'[s].err = "PathMismatch"]_vars

\* every table the RPCs write
Tables ==
    <<uaq, quest_completions, workout_logs, xp_events, profiles, groups,
      group_members>>
\* the failures of validation and authorization
FailureKinds ==
    {"NotAuthenticated", "NotFound", "PathMismatch", "PathRequired",
     "CapacityExceeded", "ValidationFailed"}

\* C27 (no partial writes on failure): a client's call of select_quest,
\* complete_quest, log_workout, create_guild or join_guild_by_code
\* changes no table in any step before its commit, and a call that has
\* failed a validation or authorization check never commits: from the
\* call to the end of a failed call every table stays as it was.
C27_NoPartialWrites ==
    [][\A s \in OneClient :
          /\ tx[s].pc # "commit" => Tables' = Tables
          /\ tx[s].err \in FailureKinds =>
                tx[s].pc = "raised" /\ tx'[s].pc = "idle"]_vars

\* a create_guild with too short a name has failed where a guild exists
C27_Witness ==
    /\ tx[1].op = "create_guild" /\ tx[1].pc = "raised"
    /\ tx[1].err = "ValidationFailed"
    /\ groups # {}

\* the call of session s names an assignment that is not the caller's:
\* another user's, or no row at all
NotOwn(s) ==
    /\ tx[s].op = "complete_quest"
    /\ ~\E r \in uaq : r.id = tx[s].arg /\ r.user_id = tx[s].user

\* C28 (own assignment only): a complete_quest naming an assignment that
\* is not the caller's fails; from its call to its end no ledger row is
\* written, no profile changes and the assignment keeps its status.
C28_OwnAssignmentOnly ==
    [][\A s \in OneClient :
          NotOwn(s) =>
             /\ tx[s].pc # "raised" =>
                   tx'[s].pc = "raised" /\ tx'[s].err = "NotFound"
             /\ tx[s].pc = "raised" => tx'[s].pc = "idle"
             /\ tx'[s].w_xp = {} /\ tx'[s].w_uaq = {} /\ tx'[s].w_prof = {}
             /\ xp_events' = xp_events
             /\ profiles' = profiles
             /\ uaq' = uaq]_vars

\* user 2 has named an active assignment of user 1 and was refused
C28_Witness ==
    /\ tx[1].op = "complete_quest" /\ tx[1].user = 2
    /\ tx[1].pc = "raised" /\ tx[1].err = "NotFound"
    /\ \E r \in uaq :
          r.id = tx[1].arg /\ r.user_id = 1 /\ r.status = "active"

\* C29 (append-only ledger): in every step each xp_events row stays as
\* it is, and each new row is one that a complete_quest or a log_workout
\* wrote and commits in that step; the client's own requests on the
\* table add, change and remove nothing.
C29_AppendOnly ==
    [][/\ xp_events \subseteq xp_events'
       /\ \A e \in xp_events' \ xp_events :
             \E s \in Sessions :
                /\ tx[s].op \in {"complete_quest", "log_workout"}
                /\ tx[s].pc = "commit" /\ tx'[s].pc = "idle"
                /\ e \in tx[s].w_xp]_vars

\* the ledger holds a row of a completed quest and a row of a workout
C29_Witness ==
    \E q, w \in xp_events :
       /\ q.source_type = "quest" /\ w.source_type = "workout"
       /\ q.user_id = 1 /\ w.user_id = 1

\* C30 (total_xp written by the engine only): whenever a profile's
\* total_xp changes, the step is the commit of a complete_quest or a
\* log_workout of that user that also adds ledger rows of the user whose
\* amounts sum to the change.
C30_TotalFromLedger ==
    [][\A u \in Users :
          LET before == ProfileOf(profiles, u).total_xp
              after == ProfileOf(profiles', u).total_xp
          IN after # before =>
                \E s \in Sessions :
                   /\ tx[s].op \in {"complete_quest", "log_workout"}
                   /\ tx[s].user = u
                   /\ tx[s].pc = "commit" /\ tx'[s].pc = "idle"
                   /\ after - before =
                        SumAmount({e \in xp_events' \ xp_events :
                                     e.user_id = u})]_vars

\* C31 (retry of create_guild): a create_guild that commits for a caller
\* and a name for which a guild made by create_guild is already stored
\* leaves groups and group_members as they were.
C31_RetryCreateGuild ==
    [][\A s \in OneClient :
          (/\ tx[s].op = "create_guild" /\ tx[s].pc = "commit"
           /\ tx'[s].pc = "idle"
           /\ \E g \in groups : /\ g.created_by = tx[s].user
                                /\ g.name = trim(tx[s].arg)
                                /\ g.invite_code # NullText) =>
             /\ groups' = groups
             /\ group_members' = group_members]_vars

\* the completion records of an assignment
CompletionsOf(a) == {c \in quest_completions : c.active_quest_id = a}
\* the quest_completion ledger rows that name a completion record and
\* carry the reward of the quest of its assignment
AwardsOf(c) ==
    {e \in xp_events :
        /\ e.source_type = "quest_completion" /\ e.source_id = c.id
        /\ \E r \in uaq : /\ r.id = c.active_quest_id
                          /\ e.amount = xp_reward(r.quest_id)}

\* C32 (assignment, completion record and ledger in step): in every
\* committed state an assignment is completed exactly when one completion
\* record names it, and every completion record has exactly one
\* quest_completion ledger row whose source is the record and whose
\* amount is the quest's reward.
C32_InStep ==
    /\ \A r \in uaq :
          r.status = "completed" <=> Cardinality(CompletionsOf(r.id)) = 1
    /\ \A c \in quest_completions : Cardinality(AwardsOf(c)) = 1

\* C33 (total_xp never decreases): in every step of two browsers of a
\* user logging workouts, claiming the daily XP and adding XP with
\* incrementProfileXp, each user's stored total_xp after the step is at
\* least its value before.
C33_TotalNeverDecreases ==
    [][\A u \in Users :
          ProfileOf(profiles', u).total_xp >= ProfileOf(profiles, u).total_xp]_vars

\* C34 (daily claim once per user and day): a step in which a browser's
\* onClaimDailyXp writes total_xp + 10 is taken only when no browser of
\* the same user has claimed on that day.
C34_DailyClaimOnce ==
    [][\A b \in Sessions :
          (b \in dailyClaimed' /\ b \notin dailyClaimed) =>
             \A c \in Sessions :
                profile_id(c) = profile_id(b) => c \notin dailyClaimed]_vars

\* the ledger holds the workout row of the user's logDate
LoggedToday(u) ==
    \E l \in workout_logs, e \in xp_events :
       /\ l.user_id = u /\ l.log_date = logDate
       /\ e.user_id = u /\ e.source_id = l.id
       /\ e.source_type \in {"workout_log", "workout"}

\* C35 (re-logging adds no XP through the page): once log_workout has
\* returned awarded_xp = 0 to submitWorkoutLog for a date whose ledger
\* row exists, no later step of that submitWorkoutLog changes the user's
\* total_xp.
C35_RelogAddsNothing ==
    [][\A b \in OneClient :
          (/\ page[b].pc \in {"result", "inc_select", "inc_update"}
           /\ page[b].awardedXp = 0
           /\ LoggedToday(profile_id(b))) =>
             ProfileOf(profiles', profile_id(b)).total_xp
               = ProfileOf(profiles, profile_id(b)).total_xp]_vars

\* C36 (returned longest streak is the stored one): when a log_workout
\* of the core migration commits, the longest_streak it returns equals
\* the longest_streak of the caller's profiles row after the commit.
C36_ReturnedLongestStored ==
    [][\A s \in OneClient :
          (/\ tx[s].op = "log_workout" /\ tx[s].pc = "commit"
           /\ tx'[s].pc = "idle") =>
             tx[s].ret.longest_streak
               = ProfileOf(profiles', tx[s].user).longest_streak]_vars

\* C37 (current streak within longest): in every committed state each
\* profile's current_streak is at most its longest_streak.
C37_CurrentWithinLongest ==
    \A p \in profiles : p.current_streak <= p.longest_streak

\* user 1 holds a streak of one day after a longer one has ended
C37_Witness ==
    /\ \E l \in workout_logs : l.user_id = 1 /\ l.completed
    /\ \E p \in profiles :
          p.id = 1 /\ p.current_streak = 1 /\ p.longest_streak > 1

WorkoutAwarded(u, id) ==
    \E e \in xp_events :
       e.user_id = u /\ e.source_type = "workout" /\ e.source_id = id

\* C39 (the first completed submission fixes a date's XP): when a
\* log_workout of the cardio-bonus revision commits for a date, then if
\* it is completed and the date's ledger row does not exist yet it
\* returns 40, plus 10 for the walk and 15 for the run, and total_xp
\* grows by that amount; otherwise it returns awarded_xp 0 and bonus_xp 0
\* and total_xp stays as it is, whatever flags it carries.
C39_FirstSubmissionFixesXp ==
    [][\A s \in Sessions :
          (/\ rev = "fix" /\ tx[s].op = "log_workout"
           /\ tx[s].pc = "commit" /\ tx'[s].pc = "idle") =>
             LET u == tx[s].user
                 walk == IF tx[s].payload[1] THEN 10 ELSE 0
                 run == IF tx[s].payload[2] THEN 15 ELSE 0
                 before == ProfileOf(profiles, u).total_xp
                 after == ProfileOf(profiles', u).total_xp
             IN IF tx[s].completed /\ ~WorkoutAwarded(u, tx[s].v_log)
                  THEN /\ tx[s].ret.awarded_xp = 40 + walk + run
                       /\ tx[s].ret.bonus_xp = walk + run
                       /\ after = before + 40 + walk + run
                  ELSE /\ tx[s].ret.awarded_xp = 0
                       /\ tx[s].ret.bonus_xp = 0
                       /\ after = before]_vars

\* a date first logged without a bonus is logged again, completed, with
\* both flags, and nothing is awarded
C39_Witness ==
    \E s \in Sessions :
       /\ rev = "fix" /\ tx[s].op = "log_workout" /\ tx[s].pc = "commit"
       /\ tx[s].completed /\ tx[s].payload = <<TRUE, TRUE>>
       /\ tx[s].ret.awarded_xp = 0
       /\ \E e \in xp_events :
             /\ e.user_id = tx[s].user /\ e.source_type = "workout"
             /\ e.source_id = tx[s].v_log /\ e.amount = 40

\* C40 (joining changes no role): in every step of a join_guild_by_code,
\* from its call to its commit, each membership row stays in the table
\* and no row of the same group and user with another role appears.
C40_JoinKeepsRole ==
    [][\A s \in OneClient :
          tx[s].op = "join_guild_by_code" =>
             \A m \in group_members :
                /\ m \in group_members'
                /\ \A n \in group_members' :
                      (n.group_id = m.group_id /\ n.user_id = m.user_id) =>
                         n.role = m.role]_vars

\* the owner of a guild has joined it by its code and is about to commit
C40_Witness ==
    /\ tx[1].op = "join_guild_by_code" /\ tx[1].pc = "commit"
    /\ \E m \in group_members :
          /\ m.group_id = tx[1].v_group_id /\ m.user_id = tx[1].user
          /\ m.role = "owner"

====
